---- MODULE Spec2Model ----
(***************************************************************************)
(* RedisManager (src/src/redis_manager/redis_manager.py) as a state        *)
(* machine.  One step of the model is what one asyncio task executes       *)
(* between two suspension points (an await on backend I/O, a sleep, a      *)
(* wait for a busy lock or a condition wait): asyncio.Lock.acquire does    *)
(* not suspend when the lock is free and nobody queues for it.             *)
(***************************************************************************)
EXTENDS Integers, Sequences, FiniteSets, TLC

\* ---- bounds of the model ------------------------------------------------
MaxEntries == 3      \* RedisConnection objects ever put into _pools
MaxTime == 1         \* horizon of the clock time.time()
MaxConn == 1         \* max_connection_size of the modelled manager
MaxIdle == 0         \* max_idle_time of the modelled manager
MaxCloses == 2       \* close calls on one entry after which stop_cleanup is not called
MaxTimeout == 2      \* longest timeout_sec given to wait_for_ready
MaxRetries == 3      \* largest max_retries given to wait_for_ready
MaxStep == 2         \* longest step_sec given to wait_for_ready
\* ---- configuration ------------------------------------------------------
Floor == 1           \* connection_pools_per_node_at_start

URLS == {"u1", "u2"}
Procs == {"p1", "p2", "p3"}
Ids == 1 .. MaxEntries
NoConn == 0          \* connection = None
NoTask == "none"
TimeoutSecs == 0 .. MaxTime

VARIABLES
    keys,        \* the keys of self._pools, in insertion order
    pools,       \* self._pools[url]: the list of entries (ids), <<>> when absent
    entry,       \* the RedisConnection objects: health_status, active_calls, ...
    nextId,      \* the next RedisConnection to be registered
    now,         \* time.time()
    lock,        \* holder of self._lock
    cond,        \* holder of the lock of self._pools_condition[url]
    task,        \* the caller tasks: operation, position, locals
    hc,          \* the task of _periodic_health_check
    cl,          \* the task of _periodic_cleanup
    registered,  \* history: URLs some add_node_pool call has initialised
    cancelled,   \* background tasks cancel() was called on, not resumed since
    out          \* the API call the last step completed, and how it ended

vars == <<keys, pools, entry, nextId, now, lock, cond, task, hc, cl, registered,
          cancelled, out>>

Range(s) == {s[i] : i \in 1 .. Len(s)}

RECURSIVE SumActive(_, _)
SumActive(L, E) ==
    IF L = <<>> THEN 0 ELSE E[Head(L)].active_calls + SumActive(Tail(L), E)

\* closes and closed are history: the close calls made on the object, and
\* whether one of them has run to its end
NewEntry == [health_status |-> FALSE, active_calls |-> 0, last_used |-> 0, closes |-> 0,
             closed |-> FALSE]

IdleTask == [op |-> "none", pc |-> "idle", url |-> "u1", conn |-> NoConn,
             start_time |-> 0, timeout_sec |-> 0, exc |-> "none", idx |-> 0,
             ui |-> 0, size |-> 0, step_sec |-> 0, max_retries |-> 0, attempt |-> 0,
             elapsed |-> 0, sleep |-> 0, failed |-> 0]

\* val: the value a call returned or the message of the exception it raised,
\* <<>> when there is none
NoOut == [p |-> NoTask, op |-> "none", url |-> "u1", res |-> "none", val |-> <<>>]

Done(p, op, u, res) == [p |-> p, op |-> op, url |-> u, res |-> res, val |-> <<>>]

\* the RedisConnection objects something still refers to: the lists of
\* self._pools, the connection of a get_client call, the locals of a cleanup tick
Referenced(P, T, C) ==
    UNION {Range(P[u]) : u \in URLS} \cup {T[p].conn : p \in Procs}
        \cup {C.cur} \cup Range(C.rest) \cup Range(C.active)

\* an object nothing refers to any more is gone: only its counter and the
\* count of the close calls made on it are remembered, as history
Collect(E, P, T, C) ==
    [c \in Ids |-> IF c \in Referenced(P, T, C) THEN E[c]
                   ELSE [NewEntry EXCEPT !.closes = E[c].closes,
                                         !.active_calls = E[c].active_calls]]

Store(K, P, E) == [keys |-> K, pools |-> P, entry |-> E]

Cur == Store(keys, pools, entry)

\* self._pools is a defaultdict(list): reading self._pools[url] inserts the key
Touch(S, u) ==
    IF u \in Range(S.keys) THEN S ELSE [S EXCEPT !.keys = Append(@, u), !.pools[u] = <<>>]

\* del self._pools[url]
DelKey(S, u) ==
    [S EXCEPT !.keys = SelectSeq(@, LAMBDA k : k # u), !.pools[u] = <<>>]

NeverExpired(start_time, timeout_sec) == FALSE

ExpiredLate(start_time, timeout_sec) == timeout_sec - (now - start_time) < 0

\* _check_timeout raises NoHealthyPoolsException
Expired(start_time, timeout_sec) == timeout_sec - (now - start_time) <= 0

\* queued on asyncio.Lock.acquire of self._lock
LockWaiters ==
    {p \in Procs : task[p].pc \in {"release", "cn_lock", "ca_lock", "st_lock"}}

\* self._lock is taken without suspending
LockFast == lock = NoTask /\ LockWaiters = {}

CondWaiters(u) == {p \in Procs : task[p].pc \in {"add_lock", "get_lock"} /\ task[p].url = u}

CondNotHeld(u) == CondWaiters(u) = {}

CondShared(u) == \A v \in URLS : cond[v] = NoTask /\ CondWaiters(v) = {}

\* the lock of self._pools_condition[url] is taken without suspending
CondFast(u) == cond[u] = NoTask /\ CondWaiters(u) = {}

NotifyEvery(T, u) ==
    [q \in Procs |->
        IF T[q].pc \in {"add_wait", "get_wait"}
        THEN [T[q] EXCEPT !.pc = IF @ = "add_wait" THEN "add_woken" ELSE "get_woken"]
        ELSE T[q]]

\* Condition.notify_all: every task waiting on the URL's condition is woken
NotifyAll(T, u) ==
    [q \in Procs |->
        IF T[q].url = u /\ T[q].pc \in {"add_wait", "get_wait"}
        THEN [T[q] EXCEPT !.pc = IF @ = "add_wait" THEN "add_woken" ELSE "get_woken"]
        ELSE T[q]]

\* _release_pool, under self._lock
ReleasePool(S, u, c) ==
    LET S1 == Touch(S, u) IN
    IF c \in Range(S1.pools[u])
    THEN [S1 EXCEPT !.entry[c].active_calls = @ - 1]
    ELSE S1

\* get_client leaves through its finally clause with exception x in flight
\* ("none": the body completed); _release_pool runs now or queues for self._lock
Leave(p, S, u, c, x) ==
    IF LockFast
    THEN [S |-> ReleasePool(S, u, c), t |-> IdleTask, hold |-> FALSE, o |-> Done(p, "get_client", u, x)]
    ELSE [S |-> S,
          t |-> [IdleTask EXCEPT !.op = "get", !.pc = "release", !.url = u, !.conn = c, !.exc = x],
          hold |-> FALSE, o |-> NoOut]

PickLast(L, E, i, best) == best = NoConn \/ E[L[i]].active_calls <= E[best].active_calls

PickFirst(L, E, i, best) == best = NoConn \/ E[L[i]].active_calls < E[best].active_calls

\* _get_least_active_pool: the scan of self._pools[url]
RECURSIVE LeastScan(_, _, _, _)
LeastScan(L, E, i, best) ==
    IF i > Len(L) THEN best
    ELSE IF E[L[i]].health_status /\ PickFirst(L, E, i, best)
         THEN LeastScan(L, E, i + 1, L[i])
         ELSE LeastScan(L, E, i + 1, best)

LeastOfAll(S, u) == IF S.pools[u] = <<>> THEN NoConn ELSE S.pools[u][1]

_get_least_active_pool(S, u) == LeastScan(S.pools[u], S.entry, 1, NoConn)

SaturatedAbove(E, c) == ~(E[c].active_calls <= MaxConn)

SaturatedBelow(E, c) == ~(E[c].active_calls < MaxConn - 1)

Saturated(E, c) == ~(E[c].active_calls < MaxConn)

\* _get_pool inside "async with self._pools_condition[url]", up to the first await
GetCritical(p, S0, u, st, to) ==
    LET S == Touch(S0, u)
        c == _get_least_active_pool(S, u)
    IN  IF c = NoConn THEN Leave(p, S, u, NoConn, "NoHealthyPools")
        ELSE IF ~Saturated(S.entry, c)
        THEN [S |-> [S EXCEPT !.entry[c].active_calls = @ + 1, !.entry[c].last_used = now],
              t |-> [IdleTask EXCEPT !.op = "get", !.pc = "body", !.url = u, !.conn = c],
              hold |-> FALSE, o |-> Done(p, "_get_pool", u, "selected")]
        ELSE IF Expired(st, to) THEN Leave(p, S, u, NoConn, "NoHealthyPools")
        ELSE [S |-> S,
              t |-> [IdleTask EXCEPT !.op = "get", !.pc = "get_ready", !.url = u,
                                     !.start_time = st, !.timeout_sec = to],
              hold |-> TRUE, o |-> NoOut]

\* _get_pool from the top of its loop
GetLoop(p, S, u, st, to) ==
    IF Expired(st, to) THEN Leave(p, S, u, NoConn, "NoHealthyPools")
    ELSE IF CondFast(u) THEN GetCritical(p, S, u, st, to)
    ELSE [S |-> S,
          t |-> [IdleTask EXCEPT !.op = "get", !.pc = "get_lock", !.url = u,
                                 !.start_time = st, !.timeout_sec = to],
          hold |-> FALSE, o |-> NoOut]

\* the entries _add_new_node_pools(url, count, ...) registers: ids, stamped now
RECURSIVE Extend(_, _, _, _)
Extend(S, u, id, count) ==
    IF count = 0 THEN S
    ELSE Extend([S EXCEPT !.entry[id] = [NewEntry EXCEPT !.health_status = TRUE,
                                                         !.last_used = now],
                          !.pools[u] = Append(@, id)],
                u, id + 1, count - 1)

\* _add_new_node_pools after its gather: self._pools[url].extend(new_pools)
_add_new_node_pools(S, u, id, count) == Extend(Touch(S, u), u, id, count)

CommitNotifying(p, R, T) ==
    /\ keys' = R.S.keys
    /\ pools' = R.S.pools
    /\ task' = [NotifyAll(T, R.t.url) EXCEPT ![p] = R.t]
    /\ entry' = Collect(R.S.entry, R.S.pools, task', cl)
    /\ out' = R.o

\* what a step of a caller task writes
Commit(p, R, T) ==
    /\ keys' = R.S.keys
    /\ pools' = R.S.pools
    /\ task' = [T EXCEPT ![p] = R.t]
    /\ entry' = Collect(R.S.entry, R.S.pools, task', cl)
    /\ out' = R.o

\* get_client: "async with manager.get_client(url, timeout_sec)"
GetClient(p, u, to) ==
    /\ task[p].pc = "idle"
    /\ LET R == IF u \notin Range(keys)
                THEN Leave(p, Cur, u, NoConn, "ValueError")
                ELSE GetLoop(p, Cur, u, now, to)
       IN  /\ Commit(p, R, task)
           /\ cond' = IF R.hold THEN [cond EXCEPT ![u] = p] ELSE cond
    /\ UNCHANGED <<nextId, now, lock, hc, cl, registered, cancelled>>

\* _get_pool obtains the condition's lock it queued for
GetLock(p) ==
    /\ task[p].pc = "get_lock"
    /\ cond[task[p].url] = NoTask
    /\ LET u == task[p].url
           R == GetCritical(p, Cur, u, task[p].start_time, task[p].timeout_sec)
       IN  /\ Commit(p, R, task)
           /\ cond' = IF R.hold THEN [cond EXCEPT ![u] = p] ELSE cond
    /\ UNCHANGED <<nextId, now, lock, hc, cl, registered, cancelled>>

\* _get_pool: _add_new_node_pools(url, 1, 1) returns, or raises NoHealthyPools
GetReady(p, ok) ==
    /\ task[p].pc = "get_ready"
    /\ LET u == task[p].url
           st == task[p].start_time
           to == task[p].timeout_sec
       IN  IF ok
           THEN /\ nextId <= MaxEntries
                /\ LET S2 == _add_new_node_pools(Cur, u, nextId, 1)
                       c == S2.pools[u][Len(S2.pools[u])]
                       S3 == [S2 EXCEPT !.entry[c].active_calls = @ + 1,
                                        !.entry[c].last_used = now]
                       R == [S |-> S3,
                             t |-> [IdleTask EXCEPT !.op = "get", !.pc = "body",
                                                    !.url = u, !.conn = c],
                             o |-> Done(p, "_get_pool", u, "grown")]
                   IN  Commit(p, R, NotifyAll(task, u))
                /\ nextId' = nextId + 1
                /\ cond' = [cond EXCEPT ![u] = NoTask]
           ELSE /\ LET R == IF Expired(st, to)
                            THEN Leave(p, Cur, u, NoConn, "NoHealthyPools")
                            ELSE [S |-> Cur, t |-> [task[p] EXCEPT !.pc = "get_wait"],
                                  o |-> NoOut]
                   IN  Commit(p, R, NotifyAll(task, u))
                /\ nextId' = nextId
                /\ cond' = [cond EXCEPT ![u] = NoTask]
    /\ UNCHANGED <<now, lock, hc, cl, registered, cancelled>>

\* _get_pool: the condition wait ended by notify_all and has the condition's
\* lock again; the "async with" is left and the loop starts over
GetWoken(p) ==
    /\ task[p].pc = "get_woken"
    /\ cond[task[p].url] = NoTask
    /\ LET u == task[p].url
           R == GetLoop(p, Cur, u, task[p].start_time, task[p].timeout_sec)
       IN  /\ Commit(p, R, task)
           /\ cond' = IF R.hold THEN [cond EXCEPT ![u] = p] ELSE cond
    /\ UNCHANGED <<nextId, now, lock, hc, cl, registered, cancelled>>

\* _get_pool: asyncio.wait_for times the condition wait out
GetWaitTimeout(p) ==
    /\ task[p].pc = "get_wait"
    /\ Expired(task[p].start_time, task[p].timeout_sec)
    /\ cond[task[p].url] = NoTask
    /\ Commit(p, Leave(p, Cur, task[p].url, NoConn, "NoHealthyPools"), task)
    /\ UNCHANGED <<nextId, now, lock, cond, hc, cl, registered, cancelled>>

\* the body of "async with get_client" ends, normally or by raising
BodyExit(p, raised) ==
    /\ task[p].pc = "body"
    /\ Commit(p, Leave(p, Cur, task[p].url, task[p].conn,
                       IF raised THEN "BodyError" ELSE "none"), task)
    /\ UNCHANGED <<nextId, now, lock, cond, hc, cl, registered, cancelled>>

\* _release_pool obtains self._lock it queued for
Release(p) ==
    /\ task[p].pc = "release"
    /\ lock = NoTask
    /\ Commit(p, [S |-> ReleasePool(Cur, task[p].url, task[p].conn), t |-> IdleTask,
                  o |-> Done(p, "get_client", task[p].url, task[p].exc)], task)
    /\ UNCHANGED <<nextId, now, lock, cond, hc, cl, registered, cancelled>>

AddNeverPresent(u) == FALSE

\* add_node_pool: "if node_redis_url in self._pools"
AddPresent(u) == u \in Range(keys)

\* add_node_pool inside "async with self._pools_condition[url]", up to the await
AddCritical(p, u, st, to) ==
    IF AddPresent(u) THEN [t |-> IdleTask, hold |-> FALSE, o |-> Done(p, "add_node_pool", u, "none")]
    ELSE IF Expired(st, to)
    THEN [t |-> IdleTask, hold |-> FALSE, o |-> Done(p, "add_node_pool", u, "NoHealthyPools")]
    ELSE [t |-> [IdleTask EXCEPT !.op = "add", !.pc = "add_ready", !.url = u,
                                 !.start_time = st, !.timeout_sec = to],
          hold |-> TRUE, o |-> NoOut]

\* add_node_pool from the top of its loop
AddLoop(p, u, st, to) ==
    IF Expired(st, to)
    THEN [t |-> IdleTask, hold |-> FALSE, o |-> Done(p, "add_node_pool", u, "NoHealthyPools")]
    ELSE IF CondFast(u) THEN AddCritical(p, u, st, to)
    ELSE [t |-> [IdleTask EXCEPT !.op = "add", !.pc = "add_lock", !.url = u,
                                 !.start_time = st, !.timeout_sec = to],
          hold |-> FALSE, o |-> NoOut]

AddCommit(p, u, R) ==
    /\ task' = [task EXCEPT ![p] = R.t]
    /\ out' = R.o
    /\ cond' = IF R.hold THEN [cond EXCEPT ![u] = p] ELSE cond
    /\ UNCHANGED <<keys, pools, entry, nextId, now, lock, hc, cl, registered, cancelled>>

\* add_node_pool(url, timeout_sec)
AddNodePool(p, u, to) ==
    /\ task[p].pc = "idle"
    /\ AddCommit(p, u, IF AddPresent(u)
                       THEN [t |-> IdleTask, hold |-> FALSE,
                             o |-> Done(p, "add_node_pool", u, "none")]
                       ELSE AddLoop(p, u, now, to))

\* add_node_pool obtains the condition's lock it queued for
AddLock(p) ==
    /\ task[p].pc = "add_lock"
    /\ cond[task[p].url] = NoTask
    /\ AddCommit(p, task[p].url,
                 AddCritical(p, task[p].url, task[p].start_time, task[p].timeout_sec))

\* add_node_pool: _add_new_node_pools(url, floor, 1) returns, or raises
AddReady(p, ok) ==
    /\ task[p].pc = "add_ready"
    /\ LET u == task[p].url IN
       IF ok
       THEN /\ nextId + Floor - 1 <= MaxEntries
            /\ LET S == _add_new_node_pools(Cur, u, nextId, Floor)
               IN  /\ keys' = S.keys
                   /\ pools' = S.pools
                   /\ entry' = S.entry
            /\ nextId' = nextId + Floor
            /\ task' = [NotifyAll(task, u) EXCEPT ![p] = IdleTask]
            /\ out' = Done(p, "add_node_pool", u, "none")
            /\ registered' = registered \cup {u}
       ELSE /\ task' = [NotifyAll(task, u) EXCEPT ![p] =
                           IF Expired(task[p].start_time, task[p].timeout_sec)
                           THEN IdleTask ELSE [task[p] EXCEPT !.pc = "add_wait"]]
            /\ out' = IF Expired(task[p].start_time, task[p].timeout_sec)
                      THEN Done(p, "add_node_pool", u, "NoHealthyPools") ELSE NoOut
            /\ UNCHANGED <<keys, pools, entry, nextId, registered>>
    /\ cond' = [cond EXCEPT ![task[p].url] = NoTask]
    /\ UNCHANGED <<now, lock, hc, cl, cancelled>>

\* add_node_pool: the condition wait ended by notify_all and has the
\* condition's lock again; the "async with" is left and the loop starts over
AddWoken(p) ==
    /\ task[p].pc = "add_woken"
    /\ cond[task[p].url] = NoTask
    /\ AddCommit(p, task[p].url,
                 AddLoop(p, task[p].url, task[p].start_time, task[p].timeout_sec))

\* add_node_pool: asyncio.wait_for times the condition wait out
AddWaitTimeout(p) ==
    /\ task[p].pc = "add_wait"
    /\ Expired(task[p].start_time, task[p].timeout_sec)
    /\ cond[task[p].url] = NoTask
    /\ AddCommit(p, task[p].url,
                 [t |-> IdleTask, hold |-> FALSE,
                  o |-> [Done(p, "add_node_pool", task[p].url, "NoHealthyPools")
                            EXCEPT !.val = <<"Timeout while waiting for pools">>]])

\* RedisConnection.close is called: the await of redis_client.aclose() begins
CallClose(E, c) == [E EXCEPT ![c].closes = @ + 1]

\* RedisConnection.close after the await: self.health_status = False
Closed(E, c) == [E EXCEPT ![c].health_status = FALSE, ![c].closed = TRUE]

CloseFirstOnly(p, S, u, i) ==
    IF i = 1 /\ i <= Len(S.pools[u])
    THEN [S |-> [S EXCEPT !.entry = CallClose(@, S.pools[u][i])],
          t |-> [IdleTask EXCEPT !.op = "close_node", !.pc = "cn_close", !.url = u, !.idx = i],
          hold |-> TRUE, o |-> NoOut]
    ELSE [S |-> DelKey(S, u), t |-> IdleTask, hold |-> FALSE,
          o |-> Done(p, "close_node_pools", u, "none")]

\* close_node_pools under self._lock, from entry number i of self._pools[url] on
CloseFrom(p, S, u, i) ==
    IF i <= Len(S.pools[u])
    THEN [S |-> [S EXCEPT !.entry = CallClose(@, S.pools[u][i])],
          t |-> [IdleTask EXCEPT !.op = "close_node", !.pc = "cn_close", !.url = u, !.idx = i],
          hold |-> TRUE, o |-> NoOut]
    ELSE [S |-> DelKey(S, u), t |-> IdleTask, hold |-> FALSE,
          o |-> Done(p, "close_node_pools", u, "none")]

CloseCritical(p, S, u) ==
    IF u \in Range(S.keys) THEN CloseFrom(p, S, u, 1)
    ELSE [S |-> S, t |-> IdleTask, hold |-> FALSE, o |-> Done(p, "close_node_pools", u, "none")]

\* close_node_pools(url)
CloseNodePools(p, u) ==
    /\ task[p].pc = "idle"
    /\ LET R == IF LockFast THEN CloseCritical(p, Cur, u)
                ELSE [S |-> Cur, t |-> [IdleTask EXCEPT !.op = "close_node", !.pc = "cn_lock",
                                                        !.url = u],
                      hold |-> FALSE, o |-> NoOut]
       IN  /\ Commit(p, R, task)
           /\ lock' = IF R.hold THEN p ELSE lock
    /\ UNCHANGED <<nextId, now, cond, hc, cl, registered, cancelled>>

\* close_node_pools obtains self._lock it queued for
CloseNodeLock(p) ==
    /\ task[p].pc = "cn_lock"
    /\ lock = NoTask
    /\ LET R == CloseCritical(p, Cur, task[p].url)
       IN  /\ Commit(p, R, task)
           /\ lock' = IF R.hold THEN p ELSE lock
    /\ UNCHANGED <<nextId, now, cond, hc, cl, registered, cancelled>>

\* close_node_pools: one "await pool.close()" returns
CloseNodeStep(p) ==
    /\ task[p].pc = "cn_close"
    /\ LET u == task[p].url
           i == task[p].idx
           S == [Cur EXCEPT !.entry = Closed(@, pools[u][i])]
           R == CloseFrom(p, S, u, i + 1)
       IN  /\ Commit(p, R, task)
           /\ lock' = IF R.hold THEN p ELSE NoTask
    /\ UNCHANGED <<nextId, now, cond, hc, cl, registered, cancelled>>

\* time.time() advances
Tick ==
    /\ now < MaxTime
    /\ now' = now + 1
    /\ out' = NoOut
    /\ UNCHANGED <<keys, pools, entry, nextId, lock, cond, task, hc, cl, registered, cancelled>>

\* ---- the idle cleanup loop ----------------------------------------------

ClTask(pc, ui, size, rest, active, cnow, cur) ==
    [pc |-> pc, ui |-> ui, size |-> size, rest |-> rest, active |-> active,
     now |-> cnow, cur |-> cur]

ClAt(pc) == ClTask(pc, 0, 0, <<>>, <<>>, 0, NoConn)

\* pools[n:]
Drop(L, n) == IF Len(L) <= n THEN <<>> ELSE SubSeq(L, n + 1, Len(L))

\* pools[:n]
Take(L, n) == IF Len(L) <= n THEN L ELSE SubSeq(L, 1, n)

IdleByAge(E, c, cnow) == cnow - E[c].last_used > MaxIdle

\* the test of _periodic_cleanup: idle and no active calls
IsIdle(E, c, cnow) == E[c].active_calls = 0 /\ cnow - E[c].last_used > MaxIdle

\* self._pools[url] = pools[:floor] + active_pools
Rewrite(L, active) == Take(L, Floor) \o active

RECURSIVE CleanupScan(_, _, _, _, _, _)
RECURSIVE CleanupNext(_, _, _, _)

\* _periodic_cleanup under self._lock: the loop over pools[floor:] of the URL
\* number ui, up to the next "await pool.close()", the end of the tick, or the
\* RuntimeError of a dict that changed size during iteration
CleanupScan(S, ui, size, rest, active, cnow) ==
    IF rest # <<>>
    THEN IF IsIdle(S.entry, Head(rest), cnow)
         THEN [S |-> [S EXCEPT !.entry = CallClose(@, Head(rest))],
               cl |-> ClTask("close", ui, size, Tail(rest), active, cnow, Head(rest))]
         ELSE CleanupScan(S, ui, size, Tail(rest), Append(active, Head(rest)), cnow)
    ELSE CleanupNext([S EXCEPT !.pools[S.keys[ui]] = Rewrite(@, active)], ui + 1, size, cnow)

\* the next step of "for node_redis_url, pools in self._pools.items()"
CleanupNext(S, ui, size, cnow) ==
    IF Len(S.keys) # size THEN [S |-> S, cl |-> ClAt("dead")]
    ELSE IF ui > Len(S.keys) THEN [S |-> S, cl |-> ClAt("sleep")]
    ELSE CleanupScan(S, ui, size, Drop(S.pools[S.keys[ui]], Floor), <<>>, cnow)

ClCommit(R) ==
    /\ keys' = R.S.keys
    /\ pools' = R.S.pools
    /\ entry' = Collect(R.S.entry, R.S.pools, task, R.cl)
    /\ cl' = R.cl
    /\ lock' = IF R.cl.pc = "close" THEN "cleanup" ELSE NoTask
    /\ out' = NoOut
    /\ UNCHANGED <<nextId, now, cond, task, hc, registered, cancelled>>

\* _periodic_cleanup: the sleep is over and self._lock is obtained: a tick
\* begins (a tick that has to queue for the lock reads nothing before it
\* holds it, so it begins when it gets the lock)
CleanupTick ==
    /\ cl.pc = "sleep"
    /\ lock = NoTask
    /\ ClCommit(CleanupNext(Cur, 1, Len(keys), now))

\* _periodic_cleanup: "await pool.close()" returns
CleanupClosed ==
    /\ cl.pc = "close"
    /\ ClCommit(CleanupScan([Cur EXCEPT !.entry = Closed(@, cl.cur)],
                            cl.ui, cl.size, cl.rest, cl.active, cl.now))

\* start_cleanup
StartCleanup ==
    /\ cl.pc \in {"none", "dead"}
    /\ cl' = ClAt("sleep")
    /\ out' = NoOut
    /\ UNCHANGED <<keys, pools, entry, nextId, now, lock, cond, task, hc, registered, cancelled>>

\* ---- the health recovery loop -------------------------------------------

HcTask(pc, ui, size, ei) == [pc |-> pc, ui |-> ui, size |-> size, ei |-> ei]

HcAt(pc) == HcTask(pc, 0, 0, 0)

RECURSIVE HealthScan(_, _, _, _, _)

\* _recover_unhealthy_pools under self._lock: on to the next
\* "await pool.health_check()", the end of the tick, or the RuntimeError of a
\* dict that changed size during iteration, which the except clause of
\* _periodic_health_check turns into an AttributeError (self.node_redis_url)
HealthScan(K, P, ui, size, ei) ==
    IF ui > 0 /\ ei <= Len(P[K[ui]]) THEN HcTask("ping", ui, size, ei)
    ELSE IF Len(K) # size THEN HcAt("dead")
    ELSE IF ui + 1 > Len(K) THEN HcAt("sleep")
    ELSE HealthScan(K, P, ui + 1, size, 1)

HcCommitEvict(h) ==
    /\ hc' = h
    /\ lock' = IF h.pc \in {"ping", "ready"} THEN "health" ELSE NoTask
    /\ out' = NoOut
    /\ keys' = keys
    /\ pools' = IF hc.pc = "ready"
                THEN [pools EXCEPT ![keys[hc.ui]] =
                         SelectSeq(@, LAMBDA c : c # pools[keys[hc.ui]][hc.ei])]
                ELSE pools
    /\ UNCHANGED <<nextId, now, cond, task, cl, registered, cancelled>>

\* what a step of _recover_unhealthy_pools writes besides the entry it checks
HcCommit(h) ==
    /\ hc' = h
    /\ lock' = IF h.pc \in {"ping", "ready"} THEN "health" ELSE NoTask
    /\ out' = NoOut
    /\ UNCHANGED <<keys, pools, nextId, now, cond, task, cl, registered, cancelled>>

\* _periodic_health_check: the sleep is over and _recover_unhealthy_pools
\* obtains self._lock: a tick begins
HealthTick ==
    /\ hc.pc = "sleep"
    /\ lock = NoTask
    /\ HcCommit(HealthScan(keys, pools, 0, Len(keys), 0))
    /\ entry' = entry

HealthCheckKeeps(E, c, ok) == IF ok THEN [E EXCEPT ![c].health_status = TRUE] ELSE E

\* RedisConnection.health_check: the ping answers, or fails
health_check(E, c, ok) == [E EXCEPT ![c].health_status = ok]

\* _recover_unhealthy_pools: "await pool.health_check()" returns
HealthPing(ok) ==
    /\ hc.pc = "ping"
    /\ entry' = health_check(entry, pools[keys[hc.ui]][hc.ei], ok)
    /\ IF ok
       THEN HcCommit(HealthScan(keys, pools, hc.ui, hc.size, hc.ei + 1))
       ELSE HcCommit([hc EXCEPT !.pc = "ready"])

\* _recover_unhealthy_pools: new_pool.wait_for_ready returns (then
\* "pool.pool = new_pool.pool" raises AttributeError: a RedisConnection has
\* no attribute pool), or raises NoHealthyPoolsException (continue)
HealthReady(ok) ==
    /\ hc.pc = "ready"
    /\ IF ok
       THEN HcCommit(HcAt("dead"))
       ELSE HcCommit(HealthScan(keys, pools, hc.ui, hc.size, hc.ei + 1))
    /\ entry' = entry

\* ---- stopping and starting the loops ------------------------------------

\* a background task cancel() was called on: which loop, where it is
\* suspended, whether the manager still refers to it, and the close_all_pools
\* calls that await it
CancelledTask(kind, pc, ui, ei, ref, join) ==
    [kind |-> kind, pc |-> pc, ui |-> ui, ei |-> ei, ref |-> ref, join |-> join]

NeverRunning == FALSE

\* is_health_check_running(): a task that is not done; "cancelling" is the
\* task close_all_pools cancelled, until it is resumed
is_health_check_running == hc.pc \in {"sleep", "ping", "ready", "cancelling"}

is_cleanup_running == cl.pc \in {"sleep", "close"}

\* start_health_checks()
start_health_checks ==
    /\ hc' = IF is_health_check_running THEN hc ELSE HcAt("sleep")
    /\ out' = Done(NoTask, "start_health_checks", "u1", "none")
    /\ UNCHANGED <<keys, pools, entry, nextId, now, lock, cond, task, cl, registered,
                   cancelled>>

\* start_cleanup()
start_cleanup ==
    /\ cl' = IF is_cleanup_running THEN cl ELSE ClAt("sleep")
    /\ out' = Done(NoTask, "start_cleanup", "u1", "none")
    /\ UNCHANGED <<keys, pools, entry, nextId, now, lock, cond, task, hc, registered,
                   cancelled>>

\* stop_health_checks(): cancel() on the task the manager refers to, which
\* it then forgets
stop_health_checks ==
    /\ cancelled' =
          IF hc.pc \in {"sleep", "ping", "ready"}
          THEN cancelled \cup {CancelledTask("health", hc.pc, hc.ui, hc.ei, FALSE, {})}
          ELSE {IF z.kind = "health" THEN [z EXCEPT !.ref = FALSE] ELSE z : z \in cancelled}
    /\ hc' = HcAt("none")
    /\ out' = Done(NoTask, "stop_health_checks", "u1", "none")
    /\ UNCHANGED <<keys, pools, entry, nextId, now, lock, cond, task, cl, registered>>

\* stop_cleanup()
stop_cleanup ==
    /\ \A c \in Ids : entry[c].closes < MaxCloses
    /\ cancelled' =
          IF is_cleanup_running
          THEN cancelled \cup {CancelledTask("cleanup", cl.pc, 0, 0, FALSE, {})}
          ELSE cancelled
    /\ cl' = ClAt("none")
    /\ out' = Done(NoTask, "stop_cleanup", "u1", "none")
    /\ UNCHANGED <<keys, pools, entry, nextId, now, lock, cond, task, hc, registered>>

UnwindSwallowed(E, P, K, z) ==
    IF z.kind = "health" /\ z.pc = "ping"
    THEN [entry |-> [E EXCEPT ![P[K[z.ui]][z.ei]].health_status = FALSE], over |-> FALSE]
    ELSE [entry |-> E, over |-> TRUE]

\* what the CancelledError thrown into the task at its suspension point
\* leaves: nothing in the loops catches it before "async with self._lock"
\* has released the lock (health_check catches Exception, wait_for_ready
\* RedisConnectionError; _periodic_health_check breaks out of its loop),
\* so the entries are as they were and the task is over
Unwind(E, P, K, z) == [entry |-> E, over |-> TRUE]

\* a cancelled task is resumed
CancelDelivered(z) ==
    /\ z \in cancelled
    /\ LET R == Unwind(entry, pools, keys, z)
       IN  /\ entry' = R.entry
           /\ cancelled' = IF R.over THEN cancelled \ {z} ELSE cancelled
           /\ lock' = IF R.over /\ z.pc \in {"ping", "ready", "close"} THEN NoTask ELSE lock
           /\ hc' = IF R.over /\ z.kind = "health" /\ z.ref THEN HcAt("cancelled") ELSE hc
    /\ out' = NoOut
    /\ UNCHANGED <<keys, pools, nextId, now, cond, task, cl, registered>>

\* ---- close_all_pools ----------------------------------------------------

RECURSIVE CloseAllScan(_, _, _, _, _)

\* close_all_pools under self._lock: "for pools in self._pools.values():
\* for pool in pools" on to the next "await pool.close()", to
\* self._pools.clear(), or to the RuntimeError of a dict that changed size
\* during iteration
CloseAllScan(p, S, ui, size, ei) ==
    IF ui > 0 /\ ei <= Len(S.pools[S.keys[ui]])
    THEN [S |-> [S EXCEPT !.entry = CallClose(@, S.pools[S.keys[ui]][ei])],
          t |-> [IdleTask EXCEPT !.op = "close_all", !.pc = "ca_close", !.ui = ui,
                                 !.size = size, !.idx = ei],
          hold |-> TRUE, o |-> NoOut]
    ELSE IF Len(S.keys) # size
    THEN [S |-> S, t |-> IdleTask, hold |-> FALSE,
          o |-> Done(p, "close_all_pools", "u1", "RuntimeError")]
    ELSE IF ui + 1 > Len(S.keys)
    THEN [S |-> Store(<<>>, [u \in URLS |-> <<>>], S.entry), t |-> IdleTask,
          hold |-> FALSE, o |-> Done(p, "close_all_pools", "u1", "none")]
    ELSE CloseAllScan(p, S, ui + 1, size, 1)

\* close_all_pools reaches "async with self._lock"
CloseAllAcquire(p) ==
    IF LockFast THEN CloseAllScan(p, Cur, 0, Len(keys), 0)
    ELSE [S |-> Cur, t |-> [IdleTask EXCEPT !.op = "close_all", !.pc = "ca_lock"],
          hold |-> FALSE, o |-> NoOut]

CloseAllCommit(p, R) ==
    /\ Commit(p, R, task)
    /\ lock' = IF R.hold THEN p ELSE IF lock = p THEN NoTask ELSE lock
    /\ UNCHANGED <<nextId, now, cond, cl, registered>>

\* close_all_pools(): the health task is cancelled and awaited (a task that
\* ended with an exception gives that exception to whoever awaits it)
CloseAllPools(p) ==
    /\ task[p].pc = "idle"
    /\ IF hc.pc \in {"sleep", "ping", "ready", "cancelling"}
       THEN /\ cancelled' =
                  IF hc.pc = "cancelling"
                  THEN {IF z.kind = "health" /\ z.ref
                        THEN [z EXCEPT !.join = @ \cup {p}] ELSE z : z \in cancelled}
                  ELSE cancelled \cup {CancelledTask("health", hc.pc, hc.ui, hc.ei, TRUE, {p})}
            /\ hc' = HcAt("cancelling")
            /\ task' = [task EXCEPT ![p] = [IdleTask EXCEPT !.op = "close_all",
                                                              !.pc = "ca_join"]]
            /\ out' = NoOut
            /\ UNCHANGED <<keys, pools, entry, nextId, now, lock, cond, cl, registered>>
       ELSE IF hc.pc = "dead"
       THEN /\ out' = Done(p, "close_all_pools", "u1", "AttributeError")
            /\ UNCHANGED <<keys, pools, entry, nextId, now, lock, cond, task, hc, cl,
                           registered, cancelled>>
       ELSE /\ CloseAllCommit(p, CloseAllAcquire(p))
            /\ UNCHANGED <<hc, cancelled>>

\* close_all_pools: "await self._health_check_task" returns
CloseAllJoined(p) ==
    /\ task[p].pc = "ca_join"
    /\ \A z \in cancelled : p \notin z.join
    /\ CloseAllCommit(p, CloseAllAcquire(p))
    /\ UNCHANGED <<hc, cancelled>>

\* close_all_pools obtains self._lock it queued for
CloseAllLock(p) ==
    /\ task[p].pc = "ca_lock"
    /\ lock = NoTask
    /\ CloseAllCommit(p, CloseAllScan(p, Cur, 0, Len(keys), 0))
    /\ UNCHANGED <<hc, cancelled>>

\* close_all_pools: one "await pool.close()" returns
CloseAllStep(p) ==
    /\ task[p].pc = "ca_close"
    /\ LET c == pools[keys[task[p].ui]][task[p].idx]
       IN  CloseAllCommit(p, CloseAllScan(p, [Cur EXCEPT !.entry = Closed(@, c)],
                                          task[p].ui, task[p].size, task[p].idx + 1))
    /\ UNCHANGED <<hc, cancelled>>

\* the steps of close_all_pools calls of the tasks PS
CloseAll(PS) ==
    \/ \E p \in PS : CloseAllPools(p)
    \/ \E p \in PS : CloseAllJoined(p)
    \/ \E p \in PS : CloseAllLock(p)
    \/ \E p \in PS : CloseAllStep(p)
    \/ \E z \in cancelled : CancelDelivered(z)

\* ---- fetch_pool_status ---------------------------------------------------

\* sum(pool.health_status for pool in pools)
RECURSIVE SumHealthy(_, _)
SumHealthy(L, E) ==
    IF L = <<>> THEN 0
    ELSE (IF E[Head(L)].health_status THEN 1 ELSE 0) + SumHealthy(Tail(L), E)

PoolStateOneBased(S) ==
    [u \in Range(S.keys) |->
        [total_pools |-> Len(S.pools[u]),
         healthy_pools |-> SumHealthy(S.pools[u], S.entry),
         unhealthy_pools |-> Len(S.pools[u]) - SumHealthy(S.pools[u], S.entry),
         active_calls |-> [i \in 1 .. Len(S.pools[u]) |->
                              <<i, S.entry[S.pools[u][i]].active_calls>>]]]

\* _get_pool_state under self._lock: the shard_state of every key; the dict
\* {i: pool.active_calls for i, pool in enumerate(pools)} as the list of its
\* items, the keys counted from 0
_get_pool_state(S) ==
    [u \in Range(S.keys) |->
        [total_pools |-> Len(S.pools[u]),
         healthy_pools |-> SumHealthy(S.pools[u], S.entry),
         unhealthy_pools |-> Len(S.pools[u]) - SumHealthy(S.pools[u], S.entry),
         active_calls |-> [i \in 1 .. Len(S.pools[u]) |->
                              <<i - 1, S.entry[S.pools[u][i]].active_calls>>]]]

\* fetch_pool_status after "state = await self._get_pool_state()"
StatusInfo(state) ==
    [u \in DOMAIN state |->
        [total_pools |-> state[u].total_pools,
         healthy_pools |-> state[u].healthy_pools,
         unhealthy_pools |-> state[u].unhealthy_pools,
         pools |-> [i \in DOMAIN state[u].active_calls |->
                       [index |-> state[u].active_calls[i][1],
                        active_calls |-> state[u].active_calls[i][2]]]]]

\* fetch_pool_status returns
StatusReturn(p) ==
    /\ out' = [Done(p, "fetch_pool_status", "u1", "none")
                  EXCEPT !.val = StatusInfo(_get_pool_state(Cur))]
    /\ task' = [task EXCEPT ![p] = IdleTask]

\* fetch_pool_status(): _get_pool_state takes self._lock or queues for it
fetch_pool_status(p) ==
    /\ task[p].pc = "idle"
    /\ IF LockFast THEN StatusReturn(p)
       ELSE /\ task' = [task EXCEPT ![p] = [IdleTask EXCEPT !.op = "status",
                                                             !.pc = "st_lock"]]
            /\ out' = NoOut
    /\ UNCHANGED <<keys, pools, entry, nextId, now, lock, cond, hc, cl, registered,
                   cancelled>>

\* _get_pool_state obtains self._lock it queued for
StatusLock(p) ==
    /\ task[p].pc = "st_lock"
    /\ lock = NoTask
    /\ StatusReturn(p)
    /\ UNCHANGED <<keys, pools, entry, nextId, now, lock, cond, hc, cl, registered,
                   cancelled>>

\* ---- RedisConnection ----------------------------------------------------

\* config.py, the values as text
DEFAULT_POOL_OPTIONS ==
    [k \in {"socket_keepalive", "socket_keepalive_options", "decode_responses",
            "retry_on_timeout", "health_check_interval", "socket_connect_timeout"} |->
        CASE k = "socket_keepalive" -> "True"
          [] k = "socket_keepalive_options" -> "keepalive"
          [] k = "decode_responses" -> "True"
          [] k = "retry_on_timeout" -> "True"
          [] k = "health_check_interval" -> "60"
          [] k = "socket_connect_timeout" -> "5"]

DEFAULT_CLUSTER_POOL_OPTIONS ==
    [k \in {"decode_responses", "health_check_interval", "socket_connect_timeout",
            "socket_keepalive", "ssl"} |->
        CASE k = "decode_responses" -> "True"
          [] k = "health_check_interval" -> "60"
          [] k = "socket_connect_timeout" -> "5"
          [] k = "socket_keepalive" -> "True"
          [] k = "ssl" -> "False"]

VALID_POOL_ARGS == DOMAIN DEFAULT_POOL_OPTIONS

VALID_CLUSTER_ARGS ==
    {"require_full_coverage", "read_from_replicas", "reinitialize_steps",
     "cluster_error_retry_attempts", "connection_error_retry_attempts"}
        \cup VALID_POOL_ARGS

\* dict.update
Update(d, c) == [k \in DOMAIN d \cup DOMAIN c |-> IF k \in DOMAIN c THEN c[k] ELSE d[k]]

MergeKeepsDefaults(defaults, custom, valid_keys) ==
    IF custom # <<>> /\ DOMAIN custom \ valid_keys # {}
    THEN [raised |-> TRUE, args |-> <<>>]
    ELSE [raised |-> FALSE, args |-> Update(custom, defaults)]

\* _merge_pool_args: custom is None or a dict, both empty here (both falsy)
_merge_pool_args(defaults, custom, valid_keys) ==
    IF custom # <<>> /\ DOMAIN custom \ valid_keys # {}
    THEN [raised |-> TRUE, args |-> <<>>]
    ELSE [raised |-> FALSE, args |-> IF custom # <<>> THEN Update(defaults, custom)
                                                      ELSE defaults]

\* RedisConnection.__init__: "if self.use_cluster and self.startup_nodes"
\* chooses between _initialize_cluster and _initialize_pool
MergedArgs(use_cluster, startup_nodes, pool_args) ==
    IF use_cluster /\ startup_nodes
    THEN _merge_pool_args(DEFAULT_CLUSTER_POOL_OPTIONS, pool_args, VALID_CLUSTER_ARGS)
    ELSE _merge_pool_args(DEFAULT_POOL_OPTIONS, pool_args, VALID_POOL_ARGS)

\* RedisConnection(url, pool_size, pool_args, use_cluster, startup_nodes):
\* startup_nodes tells whether a non-empty list of nodes is given
Construct(p, use_cluster, startup_nodes, pool_args) ==
    /\ task[p].pc = "idle"
    /\ LET R == MergedArgs(use_cluster, startup_nodes, pool_args) IN
       IF R.raised
       THEN /\ out' = Done(p, "RedisConnection", "u1", "InvalidPoolArguments")
            /\ UNCHANGED <<entry, nextId>>
       ELSE /\ nextId <= MaxEntries
            /\ entry' = [entry EXCEPT ![nextId] = NewEntry]
            /\ nextId' = nextId + 1
            /\ out' = [Done(p, "RedisConnection", "u1", "none") EXCEPT !.val = R.args]
    /\ UNCHANGED <<keys, pools, now, lock, cond, task, hc, cl, registered, cancelled>>

RECURSIVE Pow2(_)
Pow2(n) == IF n = 0 THEN 1 ELSE 2 * Pow2(n - 1)

\* time.time() - start_time after d more units of time; what lies beyond the
\* longest timeout is one value, the code only compares it with timeout_sec
Later(elapsed, d) == IF elapsed + d > MaxTimeout THEN MaxTimeout + 1 ELSE elapsed + d

\* conn.wait_for_ready(timeout_sec, step_sec, max_retries) on the connection
\* c: up to the first "await self.redis_client.ping()"
WaitForReady(p, c, timeout_sec, step_sec, max_retries) ==
    /\ task[p].pc = "idle"
    /\ c < nextId
    /\ task' = [task EXCEPT ![p] =
                   [IdleTask EXCEPT !.op = "wait_for_ready", !.pc = "wr_ping", !.conn = c,
                                    !.timeout_sec = timeout_sec, !.step_sec = step_sec,
                                    !.max_retries = max_retries]]
    /\ out' = NoOut
    /\ UNCHANGED <<keys, pools, entry, nextId, now, lock, cond, hc, cl, registered,
                   cancelled>>

SleepStep(step_sec, attempt) == step_sec * Pow2(attempt - 1)

\* "await asyncio.sleep(step_sec * (2**attempt))"
SleepFor(step_sec, attempt) == step_sec * Pow2(attempt)

\* wait_for_ready: the ping, which took d units of time, answers ("ok"),
\* raises redis.exceptions.ConnectionError, or raises another exception of
\* the client library (its TimeoutError, which is no ConnectionError)
WrPing(p, r, d) ==
    /\ task[p].pc = "wr_ping"
    /\ LET t == task[p]
           c == t.conn
           elapsed == Later(t.elapsed, d)
           attempt == t.attempt + 1
       IN  CASE r = "ok" ->
                  /\ entry' = [entry EXCEPT ![c].health_status = TRUE]
                  /\ task' = [task EXCEPT ![p] = IdleTask]
                  /\ out' = [Done(p, "wait_for_ready", "u1", "none")
                                EXCEPT !.val = <<elapsed>>]
             [] r = "ConnectionError" ->
                  /\ entry' = [entry EXCEPT ![c].health_status = FALSE]
                  /\ IF elapsed > t.timeout_sec \/ attempt >= t.max_retries
                     THEN /\ task' = [task EXCEPT ![p] = IdleTask]
                          /\ out' = Done(p, "wait_for_ready", "u1", "NoHealthyPools")
                     ELSE /\ task' = [task EXCEPT ![p] =
                                         [t EXCEPT !.pc = "wr_sleep", !.attempt = attempt,
                                                   !.elapsed = elapsed,
                                                   !.failed = @ + 1,
                                                   !.sleep = SleepFor(t.step_sec, attempt)]]
                          /\ out' = NoOut
             [] OTHER ->
                  /\ entry' = entry
                  /\ task' = [task EXCEPT ![p] = IdleTask]
                  /\ out' = Done(p, "wait_for_ready", "u1", r)
    /\ UNCHANGED <<keys, pools, nextId, now, lock, cond, hc, cl, registered, cancelled>>

\* wait_for_ready: the sleep is over, late by d units of time; the next ping
WrWake(p, d) ==
    /\ task[p].pc = "wr_sleep"
    /\ task' = [task EXCEPT ![p] =
                   [@ EXCEPT !.pc = "wr_ping", !.elapsed = Later(@, task[p].sleep + d)]]
    /\ out' = NoOut
    /\ UNCHANGED <<keys, pools, entry, nextId, now, lock, cond, hc, cl, registered,
                   cancelled>>

\* conn.health_check() on the connection c: up to the await of the ping
HealthCheckCall(p, c) ==
    /\ task[p].pc = "idle"
    /\ c < nextId
    /\ task' = [task EXCEPT ![p] = [IdleTask EXCEPT !.op = "health_check",
                                                      !.pc = "hk_ping", !.conn = c]]
    /\ out' = NoOut
    /\ UNCHANGED <<keys, pools, entry, nextId, now, lock, cond, hc, cl, registered,
                   cancelled>>

\* health_check: the ping answers ("ok") or raises the exception r
HkPing(p, r) ==
    /\ task[p].pc = "hk_ping"
    /\ entry' = health_check(entry, task[p].conn, r = "ok")
    /\ task' = [task EXCEPT ![p] = IdleTask]
    /\ out' = Done(p, "health_check", "u1", "none")
    /\ UNCHANGED <<keys, pools, nextId, now, lock, cond, hc, cl, registered, cancelled>>

\* conn.close() on the connection c: up to the await of aclose()
CloseCall(p, c) ==
    /\ task[p].pc = "idle"
    /\ c < nextId
    /\ entry[c].closes < MaxCloses
    /\ entry' = CallClose(entry, c)
    /\ task' = [task EXCEPT ![p] = [IdleTask EXCEPT !.op = "close", !.pc = "cc_close",
                                                      !.conn = c]]
    /\ out' = NoOut
    /\ UNCHANGED <<keys, pools, nextId, now, lock, cond, hc, cl, registered, cancelled>>

\* close: aclose() returns
CloseReturn(p) ==
    /\ task[p].pc = "cc_close"
    /\ entry' = Closed(entry, task[p].conn)
    /\ task' = [task EXCEPT ![p] = IdleTask]
    /\ out' = Done(p, "close", "u1", "none")
    /\ UNCHANGED <<keys, pools, nextId, now, lock, cond, hc, cl, registered, cancelled>>

\* ---- the system ---------------------------------------------------------

InitBothLoops ==
    /\ keys = <<>>
    /\ pools = [u \in URLS |-> <<>>]
    /\ entry = [c \in Ids |-> NewEntry]
    /\ nextId = 1
    /\ now = 0
    /\ lock = NoTask
    /\ cond = [u \in URLS |-> NoTask]
    /\ task = [p \in Procs |-> IdleTask]
    /\ hc = HcAt("sleep")
    /\ cl = ClAt("sleep")
    /\ registered = {}
    /\ cancelled = {}
    /\ out = NoOut

Init ==
    /\ keys = <<>>
    /\ pools = [u \in URLS |-> <<>>]
    /\ entry = [c \in Ids |-> NewEntry]
    /\ nextId = 1
    /\ now = 0
    /\ lock = NoTask
    /\ cond = [u \in URLS |-> NoTask]
    /\ task = [p \in Procs |-> IdleTask]
    /\ hc = HcAt("sleep")
    /\ cl = ClAt("none")
    /\ registered = {}
    /\ cancelled = {}
    /\ out = NoOut

\* the calls of the caller tasks PS on the URLs US
Calls(PS, US) ==
    \/ \E p \in PS, u \in US, to \in TimeoutSecs : GetClient(p, u, to)
    \/ \E p \in PS : GetLock(p)
    \/ \E p \in PS, ok \in BOOLEAN : GetReady(p, ok)
    \/ \E p \in PS : GetWoken(p)
    \/ \E p \in PS : GetWaitTimeout(p)
    \/ \E p \in PS, raised \in BOOLEAN : BodyExit(p, raised)
    \/ \E p \in PS : Release(p)
    \/ \E p \in PS, u \in US, to \in TimeoutSecs : AddNodePool(p, u, to)
    \/ \E p \in PS : AddLock(p)
    \/ \E p \in PS, ok \in BOOLEAN : AddReady(p, ok)
    \/ \E p \in PS : AddWoken(p)
    \/ \E p \in PS : AddWaitTimeout(p)
    \/ \E p \in PS, u \in US : CloseNodePools(p, u)
    \/ \E p \in PS : CloseNodeLock(p)
    \/ \E p \in PS : CloseNodeStep(p)

Cleanup ==
    \/ StartCleanup
    \/ CleanupTick
    \/ CleanupClosed

Health ==
    \/ HealthTick
    \/ HealthPing(TRUE)
    \/ HealthPing(FALSE)
    \/ HealthReady(TRUE)
    \/ HealthReady(FALSE)

Next == Calls({"p1", "p2"}, {"u1"}) \/ Tick \/ Cleanup \/ Health

Spec == Init /\ [][Next]_vars

TypeOK ==
    /\ Range(keys) \subseteq URLS
    /\ nextId \in 1 .. MaxEntries + 1
    /\ now \in 0 .. MaxTime

\* ---- specifications ------------------------------------------------------

\* the calls of a manager nobody calls close_node_pools on
CallsNoClose(PS, US) ==
    \/ \E p \in PS, u \in US, to \in TimeoutSecs : GetClient(p, u, to)
    \/ \E p \in PS : GetLock(p)
    \/ \E p \in PS, ok \in BOOLEAN : GetReady(p, ok)
    \/ \E p \in PS : GetWoken(p)
    \/ \E p \in PS : GetWaitTimeout(p)
    \/ \E p \in PS, raised \in BOOLEAN : BodyExit(p, raised)
    \/ \E p \in PS : Release(p)
    \/ \E p \in PS, u \in US, to \in TimeoutSecs : AddNodePool(p, u, to)
    \/ \E p \in PS : AddLock(p)
    \/ \E p \in PS, ok \in BOOLEAN : AddReady(p, ok)
    \/ \E p \in PS : AddWoken(p)
    \/ \E p \in PS : AddWaitTimeout(p)

\* three callers on one URL
NextGrow == Calls({"p1", "p2", "p3"}, {"u1"}) \/ Tick

SpecGrow == Init /\ [][NextGrow]_vars

\* three callers on one URL and the cleanup loop, without close_node_pools and
\* without the recovery loop: the lists change through growth and cleanup only
NextNoClose == CallsNoClose({"p1", "p2", "p3"}, {"u1"}) \/ Tick \/ Cleanup

SpecNoClose == Init /\ [][NextNoClose]_vars

\* ---- the claims ---------------------------------------------------------

\* the leases acquired for url and not yet released
Leases(u) ==
    {p \in Procs : task[p].url = u /\ task[p].conn # NoConn
                   /\ task[p].pc \in {"body", "release"}}

\* C1: in every reachable state and for every URL, the sum of active_calls
\* over the entries of pools[url] equals the number of leases acquired for
\* that URL and not yet released
C1_SumEqualsLeases ==
    \A u \in URLS : SumActive(pools[u], entry) = Cardinality(Leases(u))

\* C2: for every entry and in every reachable state,
\* 0 <= active_calls <= max_connection_size
C2_ActiveCallsBounded ==
    \A c \in Ids : 0 <= entry[c].active_calls /\ entry[c].active_calls <= MaxConn

\* a lease was released while one entry of the URL is at the cap and another at 0
C2_Witness ==
    /\ out.op = "get_client" /\ out.res = "none"
    /\ \E c \in Range(pools[out.url]) : entry[c].active_calls = MaxConn
    /\ \E c \in Range(pools[out.url]) : entry[c].active_calls = 0

\* p leaves the scope of a lease in this step
LeaseExit(p) ==
    /\ task[p].conn # NoConn
    /\ task[p].pc \in {"body", "release"}
    /\ task'[p].pc = "idle"

\* C3: for every successful acquire, once the lease scope is exited the leased
\* entry's active_calls is back to the value it had before the acquire (the
\* exit takes back the one the acquire added), whether the body completed or
\* raised, and the exit never calls close on the entry
C3_LeaseScopeRestores ==
    [][\A p \in Procs :
          LeaseExit(p) =>
              /\ entry'[task[p].conn].active_calls = entry[task[p].conn].active_calls - 1
              /\ entry'[task[p].conn].closes = entry[task[p].conn].closes]_vars

Index(L, c) == CHOOSE i \in 1 .. Len(L) : L[i] = c

\* the counter the entry e of the list had when the lease on c was granted
Before(c, e) == IF e = c THEN entry[e].active_calls - 1 ELSE entry[e].active_calls

\* C4: when acquire leases an existing entry, that entry is healthy and has
\* the minimum active_calls among the healthy entries of pools[url], and it
\* is the first in list order among those at the minimum
C4_LeastActiveHealthyFirst ==
    out.res = "selected" =>
        LET L == pools[out.url]
            c == task[out.p].conn
        IN  /\ c \in Range(L)
            /\ entry[c].health_status
            /\ \A i \in 1 .. Len(L) :
                  entry[L[i]].health_status =>
                      /\ Before(c, c) <= Before(c, L[i])
                      /\ i < Index(L, c) => Before(c, c) < Before(c, L[i])

\* the second entry of the list was selected although the first is healthy
C4_Witness ==
    /\ out.res = "selected"
    /\ Len(pools[out.url]) >= 2
    /\ task[out.p].conn = pools[out.url][2]
    /\ entry[pools[out.url][1]].health_status

\* some entry of the URL is healthy and every healthy one is at the cap
AllSaturated(u) ==
    /\ \E c \in Range(pools[u]) : entry[c].health_status
    /\ \A c \in Range(pools[u]) : entry[c].health_status => entry[c].active_calls = MaxConn

\* C5: an acquire starts a growth attempt only when every healthy entry of the
\* URL has active_calls = max_connection_size, and then it is never granted an
\* existing entry; a growth that becomes ready appends exactly one new entry
\* to pools[url] and the lease is on that entry, with active_calls = 1
C5_SaturationGrowsByOne ==
    [][\A p \in Procs :
          /\ (task[p].pc # "get_ready" /\ task'[p].pc = "get_ready")
                => AllSaturated(task'[p].url)
          /\ (task[p].pc \in {"idle", "get_lock", "get_woken"} /\ task'[p].pc = "body")
                => ~AllSaturated(task'[p].url)
          /\ (task[p].pc = "get_ready" /\ task'[p].pc = "body")
                => /\ task'[p].conn \notin Range(pools[task[p].url])
                   /\ pools'[task[p].url] = Append(pools[task[p].url], task'[p].conn)
                   /\ entry'[task'[p].conn].active_calls = 1]_vars

\* floor = 1 and max_connection_size leases held: one more acquire has grown
\* the list to two entries
C5_Witness ==
    /\ out.res = "grown"
    /\ Len(pools[out.url]) = Floor + 1
    /\ Cardinality(Leases(out.url)) = MaxConn + 1
    /\ task[out.p].conn = pools[out.url][Floor + 1]

\* the tasks inside _add_new_node_pools for url
Growing(u) == {p \in Procs : task[p].url = u /\ task[p].pc \in {"get_ready", "add_ready"}}

\* C6: for each URL at most one growth attempt is in progress at any time,
\* made by the task that holds the URL's condition
C6_OneGrowthPerUrl ==
    \A u \in URLS :
        /\ Cardinality(Growing(u)) <= 1
        /\ \A p \in Growing(u) : cond[u] = p

\* two acquirers met saturation: one grows, the other queues on the condition
C6_Witness ==
    \E p, q \in Procs :
        /\ task[p].pc = "get_ready" /\ task[q].pc = "get_lock"
        /\ task[p].url = task[q].url
        /\ Leases(task[p].url) # {}

\* C7: every acquire for a URL that was never registered with add_node_pool
\* fails with ValueError and yields no lease
C7_UnknownUrlValueError ==
    /\ (out.op = "get_client" /\ out.url \notin registered) => out.res = "ValueError"
    /\ \A p \in Procs : task[p].pc = "body" => task[p].url \in registered

\* p's acquire of url u decides in this step (it does not queue)
Decides(p, u) ==
    /\ task[p].pc \in {"idle", "get_lock", "get_woken"}
    /\ task'[p].pc \notin {"get_lock", task[p].pc} \/ out'.p = p
    /\ \/ task'[p].op = "get" /\ task'[p].url = u
       \/ out' = Done(p, "get_client", u, out'.res)
    /\ task[p].pc # "idle" => task[p].url = u

AllUnhealthy(u) ==
    /\ u \in Range(keys) /\ pools[u] # <<>>
    /\ \A c \in Range(pools[u]) : ~entry[c].health_status

\* C8: if every entry of a registered URL is unhealthy, acquire fails with
\* NoHealthyPools, creating no entry and changing no entry's active_calls
C8_AllUnhealthyFails ==
    [][\A p \in Procs, u \in URLS :
          (Decides(p, u) /\ AllUnhealthy(u)) =>
              /\ \/ out' = Done(p, "get_client", u, "NoHealthyPools")
                 \/ /\ task'[p].pc = "release" /\ task'[p].conn = NoConn
                    /\ task'[p].exc = "NoHealthyPools"
              /\ pools' = pools /\ keys' = keys /\ nextId' = nextId
              /\ \A c \in Ids : entry'[c].active_calls = entry[c].active_calls]_vars

\* an acquire has just failed with NoHealthyPools on a URL whose entries are
\* all unhealthy
C8_Witness ==
    /\ out.op = "get_client" /\ out.res = "NoHealthyPools"
    /\ out.url \in registered
    /\ AllUnhealthy(out.url)

\* C9: in every reachable state no URL is a key of pools with an empty list
C9_NoEmptyList == \A u \in Range(keys) : pools[u] # <<>>

\* url is inside the body of close_node_pools
Closing(u) == \E p \in Procs : task[p].pc = "cn_close" /\ task[p].url = u

\* C10: outside the body of close_node_pools, every URL present in pools has
\* len(pools[url]) >= floor
C10_FloorKept == \A u \in Range(keys) : ~Closing(u) => Len(pools[u]) >= Floor

\* a step of the cleanup loop
CleanupStep == CleanupTick \/ CleanupClosed

\* the entries this step takes out of the list of u
Dropped(u) == Range(pools[u]) \ Range(pools'[u])

\* the entries this step calls close on
CloseCalled == {c \in Ids : entry'[c].closes > entry[c].closes}

\* C11: the cleanup loop never closes or drops an entry whose active_calls > 0,
\* nor an entry whose index in pools[url] is below floor, also when an acquire
\* selects an entry while cleanup is suspended inside its close
C11_CleanupSparesActive ==
    [][CleanupStep =>
          \A u \in URLS : \A c \in Range(pools[u]) :
              (c \in Dropped(u) \/ c \in CloseCalled) =>
                  /\ entry[c].active_calls = 0
                  /\ Index(pools[u], c) > Floor]_vars

\* ---- a cleanup tick nothing interleaves with ---------------------------

\* while the cleanup tick is suspended in a close, every caller stands still
NextQuietTick ==
    \/ cl.pc # "close" /\ CallsNoClose({"p1", "p2", "p3"}, {"u1"})
    \/ cl.pc # "close" /\ Tick
    \/ StartCleanup
    \/ CleanupTick
    \/ CleanupClosed

SpecQuietTick == Init /\ [][NextQuietTick]_vars

\* the entries of L beyond the floor that are not idle at time t, in order
Retained(L, t) ==
    SelectSeq(Drop(L, Floor), LAMBDA c : ~(entry[c].active_calls = 0 /\ t - entry[c].last_used > MaxIdle))

\* C12: a cleanup tick nothing interleaves with leaves, for every URL, the
\* first floor entries followed by exactly the later entries that are not idle,
\* in their order; close was called exactly once on each dropped entry and on
\* no retained one (no entry of a list has a close behind it when the tick
\* starts)
C12_TickKeepsFloorAndBusy ==
    [][/\ CleanupTick => \A u \in URLS : \A c \in Range(pools[u]) : entry[c].closes = 0
       /\ (CleanupStep /\ cl'.pc = "sleep") =>
             \A u \in URLS :
                 LET t == IF cl.pc = "close" THEN cl.now ELSE now IN
                 /\ pools'[u] = Take(pools[u], Floor) \o Retained(pools[u], t)
                 /\ \A c \in Range(pools[u]) :
                       entry'[c].closes = IF c \in Range(pools'[u]) THEN 0 ELSE 1]_vars

\* a tick has ended that dropped one entry beyond the floor and kept a later,
\* busy one
C12_Witness ==
    /\ cl.pc = "sleep"
    /\ \E u \in URLS :
          /\ Len(pools[u]) = Floor + 1
          /\ entry[pools[u][Floor + 1]].active_calls > 0
          /\ \E c \in Ids \ Range(pools[u]) :
                c < pools[u][Floor + 1] /\ entry[c].closes = 1

\* ---- add_node_pool ------------------------------------------------------

\* p's add_node_pool call for u, made when u was absent, returns in this step
AddReturns(p, u) ==
    /\ task[p].op = "add" /\ task[p].url = u
    /\ out' = Done(p, "add_node_pool", u, "none")

\* the entries of u are exactly floor fresh ones: healthy, no active calls
FloorFresh(u) ==
    /\ Len(pools'[u]) = Floor
    /\ \A c \in Range(pools'[u]) : entry'[c].health_status /\ entry'[c].active_calls = 0

\* C13: a successful add_node_pool(url) on an absent URL leaves url present in
\* pools with exactly floor entries, each healthy and with active_calls 0 (for
\* a caller that returns on finding the URL initialised by a concurrent caller,
\* whose entries may be leased or grown by then: with at least floor entries)
C13_AddLeavesFloorEntries ==
    [][\A p \in Procs, u \in URLS :
          AddReturns(p, u) =>
              /\ u \in Range(keys')
              /\ Len(pools'[u]) >= Floor
              /\ task[p].pc = "add_ready" => FloorFresh(u)]_vars

\* p calls add_node_pool(u) in this step
AddCalled(p, u) ==
    /\ task[p].pc = "idle"
    /\ \/ task'[p].op = "add" /\ task'[p].url = u
       \/ out'.p = p /\ out'.op = "add_node_pool" /\ out'.url = u

\* C14: add_node_pool(url) called when url is already present returns without
\* error, creates no entry and leaves the key set, each list and each entry's
\* state as they were
C14_AddIdempotent ==
    [][\A p \in Procs, u \in URLS :
          (AddCalled(p, u) /\ u \in Range(keys)) =>
              /\ out' = Done(p, "add_node_pool", u, "none")
              /\ task'[p] = IdleTask
              /\ keys' = keys /\ pools' = pools /\ entry' = entry
              /\ nextId' = nextId]_vars

\* add_node_pool has just returned for a URL that was present, with a leased entry
C14_Witness ==
    /\ out.op = "add_node_pool" /\ out.res = "none"
    /\ out.url \in registered
    /\ task[out.p].pc = "idle"
    /\ \E q \in Procs : task[q].pc = "body" /\ task[q].url = out.url
    /\ pools[out.url] # <<>>

\* p's add_node_pool call for u takes a step
AddStep(p, u) ==
    \/ AddCalled(p, u)
    \/ task[p].op = "add" /\ task[p].url = u /\ task'[p] # task[p]

\* C15: while no initialisation of the URL has succeeded (its entries did not
\* become ready), add_node_pool does not return successfully, the only error
\* it ends with is NoHealthyPools, and its steps insert no entry: the URL is
\* still absent from pools
C15_FailedAddLeavesAbsent ==
    [][\A p \in Procs, u \in URLS :
          (AddStep(p, u) /\ u \notin registered') =>
              /\ out'.p = p => out'.res = "NoHealthyPools"
              /\ u \notin Range(keys')
              /\ pools'[u] = <<>>]_vars

\* C16: add_node_pool is linearisable per URL: callers of add_node_pool on an
\* absent URL insert at most one initialisation (one is inserted only into a
\* URL without entries), once any of them has succeeded the URL has floor
\* entries, and every caller that returns on finding entries adds none
C16_AddLinearisable ==
    [][\A p \in Procs, u \in URLS :
          AddReturns(p, u) =>
              IF pools[u] = <<>>
              THEN Len(pools'[u]) = Floor
              ELSE /\ task[p].pc # "add_ready"
                   /\ keys' = keys /\ pools' = pools /\ nextId' = nextId]_vars

\* ---- the recovery loop --------------------------------------------------

\* the add_node_pool calls of the caller tasks PS on the URLs US
AddCalls(PS, US) ==
    \/ \E p \in PS, u \in US, to \in TimeoutSecs : AddNodePool(p, u, to)
    \/ \E p \in PS : AddLock(p)
    \/ \E p \in PS, ok \in BOOLEAN : AddReady(p, ok)
    \/ \E p \in PS : AddWoken(p)
    \/ \E p \in PS : AddWaitTimeout(p)

\* two callers registering two URLs while the recovery loop runs
NextRecover == AddCalls({"p1", "p2"}, URLS) \/ Tick \/ Health

SpecRecover == Init /\ [][NextRecover]_vars

\* C17: a recovery tick never changes len(pools[url]) nor the identity or the
\* order of the entries of any list; a list only grows through add_node_pool
\* or the growth path of acquire
C17_RecoveryKeepsLists ==
    [][/\ hc' # hc => (pools' = pools /\ keys' = keys)
       /\ \A u \in URLS :
             Len(pools'[u]) > Len(pools[u]) =>
                 \E p \in Procs :
                     /\ task[p].url = u /\ task[p].pc \in {"add_ready", "get_ready"}
                     /\ task'[p].pc \in {"idle", "body"}]_vars

\* a recovery tick is past an entry whose replacement failed and checks the
\* next entry of the same list
C17_Witness ==
    /\ hc.pc = "ping" /\ hc.ei = 2
    /\ ~entry[pools[keys[hc.ui]][1]].health_status
    /\ Len(pools[keys[hc.ui]]) = 2

\* the entry the recovery tick is at
HcEntry == pools[keys[hc.ui]][hc.ei]

\* C18: when the health check of an entry fails and its replacement becomes
\* ready, the recovery tick goes on and ends with the entry's health_status
\* true (the replacement's client serving the entry)
C18_RecoveryRestoresEntry ==
    [][HealthReady(TRUE) => (entry'[HcEntry].health_status /\ hc'.pc # "dead")]_vars

\* C19: when the replacement of an unhealthy entry fails readiness with
\* NoHealthyPools, the entry stays unhealthy, no exception leaves the recovery
\* routine, and the tick goes on to the remaining entries of the URL and to the
\* remaining URLs: it ends only when none is left
C19_FailedRecoveryContinues ==
    [][HealthReady(FALSE) =>
          /\ ~entry'[HcEntry].health_status
          /\ hc'.pc # "dead"
          /\ hc'.pc = "ping" =>
                \/ hc'.ui = hc.ui /\ hc'.ei = hc.ei + 1
                \/ hc'.ui > hc.ui /\ hc'.ei = 1 /\ hc.ei >= Len(pools[keys[hc.ui]])
          /\ hc'.pc = "sleep" =>
                /\ hc.ei >= Len(pools[keys[hc.ui]])
                /\ \A i \in hc.ui + 1 .. Len(keys) : pools[keys[i]] = <<>>]_vars

\* C20: an exception raised inside a tick of the health loop or of the cleanup
\* loop never terminates the loop: no loop is ever ended by an exception
C20_LoopsAbsorbExceptions == hc.pc # "dead" /\ cl.pc # "dead"

\* ---- close_node_pools ---------------------------------------------------

\* the steps of the close_node_pools calls of the tasks PS on the URLs US
CloseNodeCalls(PS, US) ==
    \/ \E p \in PS, u \in US : CloseNodePools(p, u)
    \/ \E p \in PS : CloseNodeLock(p)
    \/ \E p \in PS : CloseNodeStep(p)

\* two callers on two URLs, one of which also calls close_node_pools
NextTwoUrls ==
    CallsNoClose({"p1", "p2"}, URLS) \/ CloseNodeCalls({"p1"}, URLS) \/ Tick

SpecTwoUrls == Init /\ [][NextTwoUrls]_vars

\* p's close_node_pools(u) returns in this step
CloseReturns(p, u) ==
    /\ task[p].pc = "idle" \/ (task[p].op = "close_node" /\ task[p].url = u)
    /\ out' = Done(p, "close_node_pools", u, "none")

\* the step is one of p's close_node_pools(u) call
CloseActs(p, u) ==
    \/ task[p].op = "close_node" /\ task[p].url = u /\ task'[p] # task[p]
    \/ task[p].pc = "idle" /\ task'[p].op = "close_node" /\ task'[p].url = u
    \/ CloseReturns(p, u)

\* the number of entries of the list that p's call has called close on
ClosedSoFar(p) == IF task[p].pc = "cn_close" THEN task[p].idx ELSE 0

\* C21: when close_node_pools(url) returns, url is absent from pools and the
\* call has called close exactly once on each entry that was in pools[url]
\* (it calls close on the entries one after the other, in the order of the
\* list, and returns when it has gone through all of them); no step of the
\* call changes the list of another URL; for a URL not present the call
\* changes nothing and raises no error
C21_CloseNodePools ==
    [][\A p \in Procs, u \in URLS :
          /\ CloseReturns(p, u) =>
                /\ u \notin Range(keys') /\ pools'[u] = <<>>
                /\ u \in Range(keys) => ClosedSoFar(p) = Len(pools[u])
                /\ u \notin Range(keys) =>
                      (keys' = keys /\ pools' = pools /\ entry' = entry)
          /\ CloseActs(p, u) =>
                /\ task'[p].pc = "cn_close" => task'[p].idx = ClosedSoFar(p) + 1
                /\ \A c \in Ids :
                      entry'[c].closes =
                         IF task'[p].pc = "cn_close" /\ c = pools[u][task'[p].idx]
                         THEN entry[c].closes + 1 ELSE entry[c].closes
                /\ \A v \in URLS \ {u} :
                      /\ pools'[v] = pools[v]
                      /\ (v \in Range(keys')) = (v \in Range(keys))
                      /\ \A c \in Range(pools[v]) : entry'[c] = entry[c]]_vars

\* close_node_pools has returned after closing two entries of the URL, while
\* the other URL holds entries
C21_Witness ==
    /\ out.op = "close_node_pools"
    /\ \E c, d \in Ids : c # d /\ entry[c].closes = 1 /\ entry[d].closes = 1
    /\ \E v \in URLS \ {out.url} : pools[v] # <<>>

\* ---- close_all_pools ----------------------------------------------------

\* two callers on two URLs that acquire, add and call close_all_pools
NextCloseAll == CallsNoClose({"p1", "p2"}, URLS) \/ CloseAll({"p1", "p2"}) \/ Tick

SpecCloseAll == Init /\ [][NextCloseAll]_vars

\* C22: when close_all_pools returns, pools is empty and close has been
\* called exactly once on every entry ever registered
C22_CloseAllClosesEach ==
    [][\A p \in Procs :
          out' = Done(p, "close_all_pools", "u1", "none") =>
             /\ keys' = <<>>
             /\ \A u \in URLS : pools'[u] = <<>>
             /\ \A c \in 1 .. nextId - 1 : entry'[c].closes = 1]_vars

\* ---- release of a lease whose entry left the lists -----------------------

\* p's lease ends on an entry that is no longer in pools[url]
StaleRelease(p) ==
    /\ task[p].pc = "release"
    /\ task[p].conn # NoConn
    /\ task[p].conn \notin Range(pools[task[p].url])
    /\ task'[p].pc = "idle"

\* C23: the release of a lease whose entry is no longer in pools[url] raises
\* nothing and leaves pools unchanged: the key set, the lists, and every
\* entry's active_calls
C23_StaleReleaseNoOp ==
    [][\A p \in Procs :
          StaleRelease(p) =>
             /\ out'.res = task[p].exc
             /\ keys' = keys
             /\ pools' = pools
             /\ \A c \in Ids : entry'[c].active_calls = entry[c].active_calls]_vars

\* ---- termination of get_client ------------------------------------------

\* the calls of the tasks PS on the URLs US, get_client with a timeout that
\* expires before the clock of the model stops
CallsDue(PS, US) ==
    \/ \E p \in PS, u \in US, to \in TimeoutSecs : now + to <= MaxTime /\ GetClient(p, u, to)
    \/ \E p \in PS : GetLock(p)
    \/ \E p \in PS, ok \in BOOLEAN : GetReady(p, ok)
    \/ \E p \in PS : GetWoken(p)
    \/ \E p \in PS : GetWaitTimeout(p)
    \/ \E p \in PS, raised \in BOOLEAN : BodyExit(p, raised)
    \/ \E p \in PS : Release(p)
    \/ \E p \in PS, u \in US, to \in TimeoutSecs : AddNodePool(p, u, to)
    \/ \E p \in PS : AddLock(p)
    \/ \E p \in PS, ok \in BOOLEAN : AddReady(p, ok)
    \/ \E p \in PS : AddWoken(p)
    \/ \E p \in PS : AddWaitTimeout(p)
    \/ \E p \in PS, u \in US : CloseNodePools(p, u)
    \/ \E p \in PS : CloseNodeLock(p)
    \/ \E p \in PS : CloseNodeStep(p)

NextLive == CallsDue({"p1", "p2"}, {"u1"}) \/ Tick

\* the event loop resumes a task that can run; time passes; a ping is
\* answered or fails; the locks of asyncio are first come, first served, so
\* a task queued for one gets it
Fairness ==
    /\ WF_vars(Tick)
    /\ \A p \in {"p1", "p2"} :
          /\ SF_vars(GetLock(p))
          /\ WF_vars(\E ok \in BOOLEAN : GetReady(p, ok))
          /\ SF_vars(GetWoken(p))
          /\ SF_vars(GetWaitTimeout(p))
          /\ WF_vars(\E ok \in BOOLEAN : AddReady(p, ok))

SpecLive == Init /\ [][NextLive]_vars /\ Fairness

\* p is inside _get_pool
Acquiring(p) == task[p].pc \in {"get_lock", "get_ready", "get_wait", "get_woken"}

GetFailsAtOnce(p, u, x) ==
    /\ task'[p].conn = NoConn
    /\ \/ task'[p].pc = "idle" /\ out' = Done(p, "get_client", u, x)
       \/ task'[p].pc = "release" /\ task'[p].url = u /\ task'[p].exc = x

\* p's add_node_pool(u) ends in this step with exception x
AddFailsAtOnce(p, u, x) ==
    task'[p].pc = "idle" /\ out' = Done(p, "add_node_pool", u, x)

\* the step registers no entry and changes no active_calls
NothingGranted ==
    /\ nextId' = nextId
    /\ pools' = pools
    /\ \A c \in Ids : entry'[c].active_calls = entry[c].active_calls

\* C25 (as amended): with a timeout that has elapsed at entry, get_client on
\* a URL that is a key of pools and add_node_pool on a URL that is not fail
\* at once with NoHealthyPools; no entry is created and no lease granted
C25_ElapsedTimeoutFails ==
    [][\A p \in Procs, u \in URLS :
          /\ (GetClient(p, u, 0) /\ u \in Range(keys)) =>
                (GetFailsAtOnce(p, u, "NoHealthyPools") /\ NothingGranted)
          /\ (AddNodePool(p, u, 0) /\ u \notin Range(keys)) =>
                (AddFailsAtOnce(p, u, "NoHealthyPools") /\ NothingGranted)]_vars

\* C25 (as stated): with a timeout that has elapsed at entry, get_client and
\* add_node_pool fail at once with NoHealthyPools, whatever the URL; no entry
\* is created and no lease granted
C25_ElapsedAlwaysNoHealthyPools ==
    [][\A p \in Procs, u \in URLS :
          /\ GetClient(p, u, 0) =>
                (GetFailsAtOnce(p, u, "NoHealthyPools") /\ NothingGranted)
          /\ AddNodePool(p, u, 0) =>
                (AddFailsAtOnce(p, u, "NoHealthyPools") /\ NothingGranted)]_vars

\* an add_node_pool call has just failed with NoHealthyPools before the
\* clock moved: its timeout was 0
C25_Witness ==
    /\ now = 0
    /\ out.op = "add_node_pool"
    /\ out.res = "NoHealthyPools"
    /\ out.url \notin Range(keys)

\* ---- backend I/O and the locks ------------------------------------------

\* the caller task p holds the lock of some URL's condition
HoldsCondition(p) == \E u \in URLS : cond[u] = p

\* C26: no task is suspended in backend I/O (readiness wait, health ping,
\* close) while it holds self._lock and no per-URL condition
C26_NoIoUnderGlobalLockAlone ==
    /\ ~(lock = "cleanup" /\ cl.pc = "close")
    /\ ~(lock = "health" /\ hc.pc \in {"ping", "ready"})
    /\ \A p \in Procs :
          (lock = p /\ task[p].pc \in {"cn_close", "ca_close"}) => HoldsCondition(p)

\* ---- independence of the URLs -------------------------------------------

\* the step is one of p's get_client or add_node_pool call on u: the call
\* begins, goes on, or begins and ends at once
StepOn(p, u) ==
    \/ /\ task[p].pc # "idle" /\ task[p].op \in {"get", "add"} /\ task[p].url = u
       /\ task'[p] # task[p]
    \/ /\ task[p].pc = "idle" /\ task'[p].pc # "idle"
       /\ task'[p].op \in {"get", "add"} /\ task'[p].url = u
    \/ /\ task[p].pc = "idle"
       /\ out'.p = p /\ out'.url = u
       /\ out'.op \in {"get_client", "_get_pool", "add_node_pool"}

\* p starts to queue for the lock of u's condition
Queues(p, u) ==
    /\ task[p].pc \notin {"get_lock", "add_lock"}
    /\ task'[p].pc \in {"get_lock", "add_lock"}
    /\ task'[p].url = u

\* C27: a step of get_client (growth included) or add_node_pool on one URL
\* leaves the list, the key, the condition and the entries' active_calls and
\* health_status of every other URL unchanged, and a call queues for the
\* condition of its URL only when that very condition is held or queued for
C27_UrlsIndependent ==
    [][\A p \in Procs, u \in URLS :
          /\ StepOn(p, u) =>
                \A v \in URLS \ {u} :
                   /\ pools'[v] = pools[v]
                   /\ (v \in Range(keys')) = (v \in Range(keys))
                   /\ cond'[v] = cond[v]
                   /\ \A c \in Range(pools[v]) :
                         /\ entry'[c].active_calls = entry[c].active_calls
                         /\ entry'[c].health_status = entry[c].health_status
          /\ Queues(p, u) => (cond[u] # NoTask \/ CondWaiters(u) # {})]_vars

\* a caller gets a lease on one URL while an add_node_pool call holds the
\* condition of the other URL, waiting for its entries to be ready
C27_Witness ==
    /\ out.op = "_get_pool" /\ out.res = "selected"
    /\ \E p \in Procs : /\ task[p].pc = "add_ready"
                        /\ task[p].url # out.url
                        /\ cond[task[p].url] = p

\* ---- stopping the loops -------------------------------------------------

\* the calls that start and stop the two loops
Control ==
    \/ start_health_checks
    \/ start_cleanup
    \/ stop_health_checks
    \/ stop_cleanup

\* add_node_pool and get_client calls of the tasks PS on the URLs US, with the
\* longest timeout, whose new entries of add_node_pool become ready and whose
\* bodies do not raise
LeaseCalls(PS, US) ==
    \/ \E p \in PS, u \in US : GetClient(p, u, MaxTime)
    \/ \E p \in PS : GetLock(p)
    \/ \E p \in PS, ok \in BOOLEAN : GetReady(p, ok)
    \/ \E p \in PS : GetWaitTimeout(p)
    \/ \E p \in PS : BodyExit(p, FALSE)
    \/ \E p \in PS : Release(p)
    \/ \E p \in PS, u \in US : AddNodePool(p, u, MaxTime)
    \/ \E p \in PS : AddLock(p)
    \/ \E p \in PS : AddReady(p, TRUE)

\* two callers on one URL, the cleanup loop, the recovery loop with a
\* backend that answers the health pings, and the calls that stop and
\* restart the loops
NextStop ==
    \/ LeaseCalls({"p1", "p2"}, {"u1"})
    \/ Tick
    \/ Cleanup
    \/ HealthTick
    \/ HealthPing(TRUE)
    \/ Control
    \/ \E z \in cancelled : CancelDelivered(z)

SpecStop == Init /\ [][NextStop]_vars

\* self._lock is held by a task of the loop: the running one or a
\* cancelled one that has not been resumed
LockAccounted ==
    /\ lock = "health" =>
          \/ hc.pc \in {"ping", "ready"}
          \/ \E z \in cancelled : z.kind = "health" /\ z.pc \in {"ping", "ready"}
    /\ lock = "cleanup" =>
          \/ cl.pc = "close"
          \/ \E z \in cancelled : z.kind = "cleanup" /\ z.pc = "close"

\* a step of one of the loops
LoopStep ==
    \/ HealthTick
    \/ HealthPing(TRUE)
    \/ CleanupTick
    \/ CleanupClosed

\* C28: when a cancelled background task is resumed it is over: it makes no
\* check, recovery, close or change of pools or of an entry, and if it held
\* self._lock the lock is free; no step of a loop is made by a task that was
\* stopped, and a task that is over holds no lock
C28_CancelledTaskStops ==
    [][
        /\ \A z \in cancelled :
              CancelDelivered(z) =>
                 /\ z \notin cancelled'
                 /\ keys' = keys /\ pools' = pools /\ entry' = entry
                 /\ (z.pc \in {"ping", "ready", "close"} => lock' = NoTask)
        /\ LoopStep => cancelled' = cancelled
        /\ (HealthTick \/ HealthPing(TRUE)) => hc.pc \in {"sleep", "ping"}
        /\ (CleanupTick \/ CleanupClosed) => cl.pc \in {"sleep", "close"}
        /\ LockAccounted'
    ]_vars

\* both loops are stopped and over, the cleanup loop having been cancelled
\* inside "await pool.close()": the entry it was closing is still listed,
\* with health_status true, and self._lock is free
C28_Witness ==
    /\ cancelled = {} /\ hc.pc = "none" /\ cl.pc = "none" /\ lock = NoTask
    /\ \E c \in Range(pools["u1"]) : entry[c].closes = 1 /\ entry[c].health_status

\* ---- the loops after construction ---------------------------------------

C30_StartStop ==
    [][
        /\ start_health_checks =>
              /\ cancelled' = cancelled
              /\ IF hc.pc \in {"sleep", "ping", "ready", "cancelling"}
                 THEN hc' = hc
                 ELSE hc' = HcAt("sleep") /\ is_health_check_running'
        /\ stop_health_checks =>
              /\ ~is_health_check_running'
              /\ hc.pc \in {"sleep", "ping", "ready"} =>
                    \E z \in cancelled' : z.kind = "health" /\ z.pc = hc.pc
        /\ start_cleanup =>
              /\ cancelled' = cancelled
              /\ IF cl.pc \in {"sleep", "close"}
                 THEN cl' = cl
                 ELSE cl' = ClAt("sleep") /\ is_cleanup_running'
        /\ stop_cleanup =>
              /\ ~is_cleanup_running'
              /\ cl.pc \in {"sleep", "close"} =>
                    \E z \in cancelled' : z.kind = "cleanup" /\ z.pc = cl.pc
    ]_vars

\* start_health_checks has created a task while the stopped one, cancelled
\* inside a health ping, has not been resumed yet
C30_Witness ==
    /\ out.op = "start_health_checks"
    /\ hc.pc = "sleep"
    /\ \E z \in cancelled : z.kind = "health" /\ z.pc = "ping"

\* ---- the status snapshot -------------------------------------------------

\* two callers on two URLs whose new entries become ready and whose bodies
\* do not raise, a third that asks for the status, and the recovery loop
\* with a backend whose pings may fail and whose replacements are not ready
NextStatus ==
    \/ \E p \in {"p1", "p2"}, u \in URLS : AddNodePool(p, u, MaxTime)
    \/ \E p \in {"p1", "p2"} : AddLock(p)
    \/ \E p \in {"p1", "p2"} : AddReady(p, TRUE)
    \/ \E p \in {"p1", "p2"}, u \in URLS : GetClient(p, u, MaxTime)
    \/ \E p \in {"p1", "p2"} : GetLock(p)
    \/ \E p \in {"p1", "p2"} : GetReady(p, TRUE)
    \/ \E p \in {"p1", "p2"} : BodyExit(p, FALSE)
    \/ \E p \in {"p1", "p2"} : Release(p)
    \/ fetch_pool_status("p3")
    \/ StatusLock("p3")
    \/ HealthTick
    \/ HealthPing(TRUE)
    \/ HealthPing(FALSE)
    \/ HealthReady(FALSE)

SpecStatus == Init /\ [][NextStatus]_vars

\* C31: fetch_pool_status returns, for every URL present in pools,
\* total_pools = len(pools[url]), healthy_pools the number of entries whose
\* health_status is true, healthy_pools + unhealthy_pools = total_pools, and
\* one {index, active_calls} record per entry, index being the entry's
\* position in the list (counted from 0); with no URL in pools it returns
\* an empty mapping
C31_StatusSnapshot ==
    out.op = "fetch_pool_status" =>
        /\ DOMAIN out.val = Range(keys)
        /\ keys = <<>> => out.val = <<>>
        /\ \A u \in Range(keys) :
              LET r == out.val[u]
                  L == pools[u]
              IN  /\ r.total_pools = Len(L)
                  /\ r.healthy_pools =
                        Cardinality({i \in 1 .. Len(L) : entry[L[i]].health_status})
                  /\ r.healthy_pools + r.unhealthy_pools = r.total_pools
                  /\ Len(r.pools) = Len(L)
                  /\ \A i \in 1 .. Len(L) :
                        r.pools[i] = [index |-> i - 1,
                                      active_calls |-> entry[L[i]].active_calls]

\* the status of two URLs was returned: one has two entries, some entry is
\* unhealthy and some entry is leased
C31_Witness ==
    /\ out.op = "fetch_pool_status"
    /\ Len(keys) = 2
    /\ \E u \in Range(keys) : out.val[u].total_pools = 2
    /\ \E u \in Range(keys) : out.val[u].unhealthy_pools = 1
    /\ \E u \in Range(keys) : \E i \in 1 .. Len(pools[u]) :
          out.val[u].pools[i].active_calls = 1

\* ---- a RedisConnection used on its own ----------------------------------

\* the option maps a caller passes: none (or an empty one), or the value "x"
\* for some keys, of which max_connections is in no allow-list, ssl only in
\* the defaults of the cluster mode, read_from_replicas for clusters only
PoolArgs ==
    UNION {[K -> {"x"}] :
              K \in SUBSET {"decode_responses", "ssl", "read_from_replicas", "max_connections"}}

\* what the ping of the client library does
PingResults == {"ok", "ConnectionError", "TimeoutError"}

\* one task that constructs connections and calls their methods
NextConn ==
    \/ \E uc, sn \in BOOLEAN, a \in PoolArgs : Construct("p1", uc, sn, a)
    \/ \E c \in Ids, to \in 0 .. MaxTimeout, st \in 1 .. MaxStep, mr \in 1 .. MaxRetries :
          WaitForReady("p1", c, to, st, mr)
    \/ \E r \in PingResults, d \in 0 .. 1 : WrPing("p1", r, d)
    \/ \E d \in 0 .. 1 : WrWake("p1", d)
    \/ \E c \in Ids : HealthCheckCall("p1", c)
    \/ \E r \in PingResults \ {"ok"} : HkPing("p1", r)
    \/ HkPing("p1", "ok")
    \/ \E c \in Ids : CloseCall("p1", c)
    \/ CloseReturn("p1")

SpecConn == Init /\ [][NextConn]_vars

\* the pings are answered and the sleeps end
FairConn ==
    /\ WF_vars(\E r \in PingResults, d \in 0 .. 1 : WrPing("p1", r, d))
    /\ WF_vars(\E d \in 0 .. 1 : WrWake("p1", d))

SpecConnLive == Init /\ [][NextConn]_vars /\ FairConn

\* ---- wait_for_ready ------------------------------------------------------

\* C32: wait_for_ready always terminates: it returns on the first successful
\* ping with health_status set to true, and otherwise fails with
\* NoHealthyPools after at most max_retries failed pings, with health_status
\* false; it never leaves health_status true on failure
C32_ReadyOrNoHealthyPools ==
    /\ [][\A p \in Procs :
             (task[p].op = "wait_for_ready" /\ task'[p].pc = "idle") =>
                \/ /\ out'.res = "none"
                   /\ entry'[task[p].conn].health_status
                \/ /\ out'.res = "NoHealthyPools"
                   /\ ~entry'[task[p].conn].health_status
                   /\ task[p].failed + 1 <= task[p].max_retries]_vars
    /\ \A p \in {"p1"} : (task[p].op = "wait_for_ready") ~> (task[p].pc = "idle")

\* ---- health_check --------------------------------------------------------

\* p's health_check call ends in this step
HkEnds(p) == task[p].pc = "hk_ping" /\ task'[p].pc = "idle"

\* C33: health_check makes exactly one ping attempt (the step after its ping
\* ends the call), sets health_status to true if the ping succeeds and to
\* false if it fails with any exception, changes no other connection, and
\* never raises to its caller
C33_HealthCheckOnePing ==
    [][\A p \in Procs :
          /\ (task[p].op = "health_check" /\ task'[p] # task[p]) => HkEnds(p)
          /\ HkEnds(p) =>
                /\ out' = Done(p, "health_check", "u1", "none")
                /\ \A r \in PingResults :
                      HkPing(p, r) => entry'[task[p].conn].health_status = (r = "ok")
                /\ \A c \in Ids \ {task[p].conn} : entry'[c] = entry[c]]_vars

\* health_check has returned on the only connection there is, which was
\* closed before: its ping succeeded and health_status is true
C33_Witness ==
    /\ out.op = "health_check"
    /\ nextId = 2
    /\ entry[1].closes = 1
    /\ entry[1].health_status

\* ---- the option map of a connection --------------------------------------

\* C34: the construction of a RedisConnection fails with
\* InvalidPoolArguments exactly when the caller's option map has a key
\* outside the allow-list of the selected mode, and then no client is
\* created; otherwise the options used are the defaults of the mode with
\* every key of the caller's map overriding the default of the same name
C34_OptionsValidated ==
    [][\A uc, sn \in BOOLEAN, a \in PoolArgs :
          (out'.op = "RedisConnection" /\ Construct("p1", uc, sn, a)) =>
             LET cluster == uc /\ sn
                 allow == IF cluster THEN VALID_CLUSTER_ARGS ELSE VALID_POOL_ARGS
                 defaults == IF cluster THEN DEFAULT_CLUSTER_POOL_OPTIONS
                                        ELSE DEFAULT_POOL_OPTIONS
             IN  IF \E k \in DOMAIN a : k \notin allow
                 THEN /\ out'.res = "InvalidPoolArguments"
                      /\ nextId' = nextId
                      /\ entry' = entry
                 ELSE /\ out'.res = "none"
                      /\ nextId' = nextId + 1
                      /\ DOMAIN out'.val = DOMAIN defaults \cup DOMAIN a
                      /\ \A k \in DOMAIN out'.val :
                            out'.val[k] = IF k \in DOMAIN a THEN a[k] ELSE defaults[k]]_vars

\* a cluster connection was constructed with one default overridden and a
\* key for clusters only
C34_Witness ==
    /\ out.op = "RedisConnection" /\ out.res = "none"
    /\ DOMAIN out.val = DOMAIN DEFAULT_CLUSTER_POOL_OPTIONS \cup {"read_from_replicas"}
    /\ out.val["decode_responses"] = "x"
    /\ out.val["ssl"] = "False"

\* ---- entries that leave a list ------------------------------------------

\* C35: no entry ever leaves pools[url] without close having been invoked
\* on it: whatever the interleaving of a cleanup tick with growth on the
\* URL, an entry appended by growth is still in pools[url] after the tick
\* unless the tick closed it
C35_NoDropWithoutClose ==
    [][\A u \in URLS : \A c \in Dropped(u) : entry'[c].closes > 0]_vars

\* ---- a URL that was closed -----------------------------------------------

\* C36: once close_node_pools(url) has returned, url stays absent from
\* pools until a later add_node_pool(url) succeeds: a URL that was
\* registered and is absent does not become a key again in the release of a
\* lease taken before the close, nor at the end of a growth attempt that
\* was in progress during the close
C36_ClosedUrlStaysAbsent ==
    [][\A p \in Procs : \A u \in registered :
          (/\ u \notin Range(keys)
           /\ \/ LeaseExit(p) /\ task[p].url = u
              \/ task[p].pc = "get_ready" /\ task[p].url = u /\ task'[p] # task[p])
              => u \notin Range(keys')]_vars

\* ---- a caller blocked on the condition ----------------------------------

\* q ends, in this step, an initialisation or growth attempt on u, which
\* calls notify_all on the condition of u
Notifies(q, u) ==
    /\ task[q].pc \in {"get_ready", "add_ready"}
    /\ task[q].url = u
    /\ task'[q] # task[q]

\* p, blocked in the condition wait of _get_pool, fails in this step with
\* NoHealthyPools, its timeout having expired
TimesOut(p) ==
    /\ now - task[p].start_time >= task[p].timeout_sec
    /\ \/ out' = Done(p, "get_client", task[p].url, "NoHealthyPools")
       \/ /\ task'[p].pc = "release" /\ task'[p].conn = NoConn
          /\ task'[p].exc = "NoHealthyPools"

\* C37: release never notifies the URL's condition: a caller blocked in
\* acquire after a failed growth attempt stays blocked across the releases
\* on that URL; it resumes only on the notify_all of another caller's
\* add_node_pool or growth attempt on the same URL, or fails with
\* NoHealthyPools when its own timeout has expired
C37_ReleaseNeverNotifies ==
    [][\A p \in Procs :
          task[p].pc = "get_wait" =>
             /\ (\E q \in Procs \ {p} : LeaseExit(q)) => task'[p] = task[p]
             /\ task'[p] # task[p] =>
                   \/ /\ task'[p] = [task[p] EXCEPT !.pc = "get_woken"]
                      /\ \E q \in Procs \ {p} : Notifies(q, task[p].url)
                   \/ TimesOut(p)]_vars

\* a caller is blocked on the condition of its URL and another caller has
\* just released a lease on that URL
C37_Witness ==
    /\ out.op = "get_client" /\ out.res = "none"
    /\ \E p \in Procs : task[p].pc = "get_wait" /\ task[p].url = out.url

\* ---- the attempts of add_node_pool ---------------------------------------

\* p's add_node_pool call fails in this step with NoHealthyPools, msg being
\* the message of the exception
AddFails(p, msg) ==
    /\ task'[p] = IdleTask
    /\ out' = [Done(p, "add_node_pool", task[p].url, "NoHealthyPools") EXCEPT !.val = msg]

\* p's initialisation attempt fails in this step
AttemptFails(p) ==
    /\ task[p].pc = "add_ready"
    /\ task'[p] # task[p]
    /\ task[p].url \notin Range(keys')

\* the budget of p's call is used up
BudgetUsed(p) == now - task[p].start_time >= task[p].timeout_sec

\* C38 (as amended): an add_node_pool call makes a further initialisation
\* attempt only after being woken by the notify_all of another caller on
\* the same URL: after a failed attempt the call waits on the condition if
\* budget remains, and fails at once with NoHealthyPools (no message) if the
\* attempt used the budget up; the wait ends only by such a notify_all or,
\* the budget used up, with NoHealthyPools ("Timeout while waiting for
\* pools")
C38_OneAttemptThenWait ==
    [][\A p \in Procs :
          /\ AttemptFails(p) =>
                IF BudgetUsed(p) THEN AddFails(p, <<>>)
                ELSE task'[p] = [task[p] EXCEPT !.pc = "add_wait"]
          /\ (task[p].pc = "add_wait" /\ task'[p] # task[p]) =>
                \/ /\ task'[p] = [task[p] EXCEPT !.pc = "add_woken"]
                   /\ \E q \in Procs \ {p} : Notifies(q, task[p].url)
                \/ /\ BudgetUsed(p)
                   /\ AddFails(p, <<"Timeout while waiting for pools">>)]_vars

\* C38 (as stated): a call whose attempt fails and that no other caller
\* wakes ends with NoHealthyPools ("Timeout while waiting for pools")
C38_AlwaysTimeoutMessage ==
    [][\A p \in Procs :
          /\ (AttemptFails(p) /\ task'[p].pc = "idle") =>
                AddFails(p, <<"Timeout while waiting for pools">>)
          /\ (task[p].pc = "add_wait" /\ task'[p] # task[p]) =>
                \/ /\ task'[p] = [task[p] EXCEPT !.pc = "add_woken"]
                   /\ \E q \in Procs \ {p} : Notifies(q, task[p].url)
                \/ AddFails(p, <<"Timeout while waiting for pools">>)]_vars

\* an add_node_pool call has waited out its budget after a failed attempt
C38_Witness ==
    /\ out.op = "add_node_pool"
    /\ out.val = <<"Timeout while waiting for pools">>
    /\ out.url \notin Range(keys)

\* ---- entries whose close has run to its end ---------------------------------

\* three callers on one URL whose leases make the list grow to three
\* entries, the cleanup loop and the calls that start and stop it, and the
\* recovery loop with a backend that answers the health pings
NextClosed ==
    \/ AddNodePool("p1", "u1", MaxTime)
    \/ AddReady("p1", TRUE)
    \/ \E p \in Procs : GetClient(p, "u1", MaxTime)
    \/ \E p \in Procs : GetReady(p, TRUE)
    \/ \E p \in Procs : BodyExit(p, FALSE)
    \/ \E p \in Procs : Release(p)
    \/ Tick
    \/ CleanupTick
    \/ CleanupClosed
    \/ start_cleanup
    \/ stop_cleanup
    \/ \E z \in cancelled : CancelDelivered(z)
    \/ HealthTick
    \/ HealthPing(TRUE)

SpecClosed == Init /\ [][NextClosed]_vars

\* the entries of the lists on which a close call has run to its end
ClosedListed == {c \in UNION {Range(pools[u]) : u \in URLS} : entry[c].closed}

\* C39: an entry on which close has run to its end has health_status false
\* from then on, the recovery loop never calls health_check on it again, and
\* no get_client call gets it
C39_ClosedIsTerminal ==
    /\ [](\A c \in ClosedListed : ~entry[c].health_status)
    /\ [][/\ (/\ hc'.pc = "ping"
               /\ (hc.pc # "ping" \/ <<hc'.ui, hc'.ei>> # <<hc.ui, hc.ei>>))
             => pools'[keys'[hc'.ui]][hc'.ei] \notin ClosedListed
          /\ \A p \in Procs :
                (task[p].pc # "body" /\ task'[p].pc = "body")
                   => task'[p].conn \notin ClosedListed]_vars

\* ---- the backoff of wait_for_ready ------------------------------------------

\* C40: the sleep after the k-th failed ping of a wait_for_ready call is
\* step_sec * 2^k: twice step_sec after the first, twice the previous sleep
\* after each later one; the call sleeps only after a failure that leaves
\* retries (k < max_retries) and time (elapsed <= timeout_sec), and the failure
\* that uses them up ends the call with NoHealthyPoolsException
C40_BackoffDoubles ==
    [][\A p \in Procs :
          /\ (task[p].pc = "wr_ping" /\ task'[p].pc = "wr_sleep") =>
                LET k == task'[p].failed
                IN  /\ k = task[p].failed + 1
                    /\ k \in 1 .. task[p].max_retries - 1
                    /\ task'[p].elapsed <= task[p].timeout_sec
                    /\ task'[p].sleep = task[p].step_sec * Pow2(k)
                    /\ k = 1 => task'[p].sleep = 2 * task[p].step_sec
                    /\ k > 1 => task'[p].sleep = 2 * task[p].sleep
          /\ /\ task[p].pc = "wr_ping"
             /\ out'.res = "NoHealthyPools"
             => /\ task'[p].pc = "idle"
                /\ \/ task[p].failed + 1 >= task[p].max_retries
                   \/ \E d \in 0 .. 1 : Later(task[p].elapsed, d) > task[p].timeout_sec]_vars

\* a call asleep after its second failed ping, for four times its step
C40_Witness ==
    \E p \in Procs :
        /\ task[p].pc = "wr_sleep"
        /\ task[p].failed = 2
        /\ task[p].step_sec > 0
        /\ task[p].sleep = 4 * task[p].step_sec

====
